---- MODULE Spec2Model ----
(***************************************************************************)
(* Service layer of the Azure DevOps PBI widget: the credential cipher     *)
(* (src/utils/encryption.ts), the config store (services/configStorage.ts) *)
(* and the remote client's error mapping (services/azureDevOpsClient.ts).  *)
(*                                                                         *)
(* Strings are sequences of one-character strings.  Every asynchronous     *)
(* call runs as a process that takes one step per storage access: the      *)
(* code between two awaits on figma.clientStorage runs without yielding,   *)
(* and the steps of different calls interleave freely.                     *)
(***************************************************************************)
EXTENDS Integers, Sequences, FiniteSets, TLC

(***************************************************************************)
(* Characters, bytes and Base64                                            *)
(***************************************************************************)

\* The Base64 alphabet in value order (forge.util.encode64)
B64Alphabet ==
  << "A","B","C","D","E","F","G","H","I","J","K","L","M","N","O","P",
     "Q","R","S","T","U","V","W","X","Y","Z","a","b","c","d","e","f",
     "g","h","i","j","k","l","m","n","o","p","q","r","s","t","u","v",
     "w","x","y","z","0","1","2","3","4","5","6","7","8","9","+","/" >>

B64Chars == { B64Alphabet[i] : i \in 1..64 }

\* value (0..63) of a Base64 character
B64Index == [ c \in B64Chars |-> (CHOOSE i \in 1..64 : B64Alphabet[i] = c) - 1 ]

B64Value(c) == B64Index[c]

\* UTF-8 code of the characters a token can hold in the model: the Base64
\* alphabet is ASCII, so one character is one byte
CodeTable ==
  [ c \in B64Chars |->
      LET v == B64Index[c] IN
      IF v < 26 THEN 65 + v
      ELSE IF v < 52 THEN 97 + (v - 26)
      ELSE IF v < 62 THEN 48 + (v - 52)
      ELSE IF v = 62 THEN 43 ELSE 47 ]

CharCode(c) == CodeTable[c]

TextBytes == { CodeTable[c] : c \in B64Chars }

\* the bytes that are the code of a Base64 character
IsTextByte(b) == b \in TextBytes

CharTable == [ b \in TextBytes |-> CHOOSE c \in B64Chars : CodeTable[c] = b ]

CodeChar(b) == CharTable[b]

\* forge.util.createBuffer(token, 'utf8'): the UTF-8 bytes of a string
Utf8Bytes(s) == [ i \in 1..Len(s) |-> CharCode(s[i]) ]

RECURSIVE XorBits(_, _, _)
XorBits(a, b, n) ==
  IF n = 0 THEN 0
  ELSE (((a % 2) + (b % 2)) % 2) + 2 * XorBits(a \div 2, b \div 2, n - 1)

XorTable == [ a \in 0..255 |-> [ b \in 0..255 |-> XorBits(a, b, 8) ] ]

\* bitwise exclusive or of two bytes
Xor(a, b) == XorTable[a][b]

RECURSIVE Encode64(_)
\* forge.util.encode64: three bytes become four characters, '=' pads
Encode64(bytes) ==
  IF Len(bytes) = 0 THEN << >>
  ELSE IF Len(bytes) = 1 THEN
    << B64Alphabet[(bytes[1] \div 4) + 1],
       B64Alphabet[((bytes[1] % 4) * 16) + 1], "=", "=" >>
  ELSE IF Len(bytes) = 2 THEN
    << B64Alphabet[(bytes[1] \div 4) + 1],
       B64Alphabet[((bytes[1] % 4) * 16) + (bytes[2] \div 16) + 1],
       B64Alphabet[((bytes[2] % 16) * 4) + 1], "=" >>
  ELSE
    << B64Alphabet[(bytes[1] \div 4) + 1],
       B64Alphabet[((bytes[1] % 4) * 16) + (bytes[2] \div 16) + 1],
       B64Alphabet[((bytes[2] % 16) * 4) + (bytes[3] \div 64) + 1],
       B64Alphabet[(bytes[3] % 64) + 1] >>
    \o Encode64(SubSeq(bytes, 4, Len(bytes)))

RECURSIVE Decode64Groups(_)
Decode64Groups(s) ==
  IF Len(s) < 2 THEN << >>
  ELSE
    LET v(i) == IF i <= Len(s) /\ s[i] # "=" THEN B64Value(s[i]) ELSE 64
        e1 == v(1)
        e2 == v(2)
        e3 == v(3)
        e4 == v(4)
        b1 == (e1 * 4) + (e2 \div 16)
        b2 == ((e2 % 16) * 16) + (e3 \div 4)
        b3 == ((e3 % 4) * 64) + e4
    IN  IF e2 = 64 THEN << >>
        ELSE IF e3 = 64 THEN << b1 >>
        ELSE IF e4 = 64 THEN << b1, b2 >>
        ELSE << b1, b2, b3 >> \o Decode64Groups(SubSeq(s, 5, Len(s)))

\* forge.util.decode64: characters outside the alphabet are dropped first,
\* then every group of four characters yields up to three bytes
Decode64(s) ==
  Decode64Groups(SelectSeq(s, LAMBDA c : c \in B64Chars \cup {"="}))

(***************************************************************************)
(* Credential cipher: src/utils/encryption.ts                              *)
(***************************************************************************)

PatLength == 52
KeyLength == 32
IvLength == 12
TagLength == 16

\* forge.random.getBytesSync(n): the n-th draw of the generator.  A
\* cryptographic generator never repeats a key or a nonce in practice, so
\* every draw yields bytes that no other draw yields.
RandomBytes(draw, n) == [ j \in 1..n |-> ((draw * 97) + (j * 31) + 13) % 256 ]

\* generateKeyBytes
generateKeyBytes(draw) == RandomBytes(draw, KeyLength)

\* the format check without its anchors: any token with a Base64 character
validatePATFormat_Unanchored(token) ==
  \E i \in 1..Len(token) : token[i] \in B64Chars

\* validatePATFormat: /^[A-Za-z0-9+/]{52}$/
validatePATFormat(token) ==
  /\ Len(token) = PatLength
  /\ \A i \in 1..Len(token) : token[i] \in B64Chars

RECURSIVE SumBytes(_)
SumBytes(bytes) ==
  IF Len(bytes) = 0 THEN 0 ELSE (bytes[1] + SumBytes(Tail(bytes))) % 256

\* The block cipher is replaced by a keyed byte stream: AES-GCM encrypts in
\* counter mode, i.e. it xors the plaintext with a stream that depends on the
\* key, the nonce and the position.
KeyStream(key, iv, i) ==
  Xor(key[((i - 1) % Len(key)) + 1],
      Xor(IF Len(iv) = 0 THEN 0 ELSE iv[((i - 1) % Len(iv)) + 1], (i * 7) % 256))

GcmCrypt(key, iv, bytes) ==
  [ i \in 1..Len(bytes) |-> Xor(bytes[i], KeyStream(key, iv, i)) ]

\* the 128-bit authentication tag over nonce and ciphertext under the key
GcmTag(key, iv, ct) ==
  LET digest == (SumBytes(ct) + Len(ct)) % 256
  IN  [ j \in 1..TagLength |->
          Xor(key[j], Xor(IF Len(iv) = 0 THEN j ELSE iv[((j - 1) % Len(iv)) + 1],
                          digest)) ]

\* forge.cipher.createCipher / createDecipher accept AES keys only
ValidKey(key) == Len(key) \in {16, 24, 32}

\* String.prototype.split(sep) for a one-character separator: the pieces
\* between consecutive separators
Split(s, sep) ==
  LET at == { i \in 1..Len(s) : s[i] = sep }
      n == Cardinality(at)
      Pos(k) == IF k = 0 THEN 0
                ELSE IF k = n + 1 THEN Len(s) + 1
                ELSE CHOOSE i \in at : Cardinality({ j \in at : j < i }) = k - 1
  IN  [ k \in 1..(n + 1) |-> SubSeq(s, Pos(k - 1) + 1, Pos(k) - 1) ]

\* String.prototype.includes
Includes(s, sub) ==
  \E i \in 0..(Len(s) - Len(sub)) : \A j \in 1..Len(sub) : s[i + j] = sub[j]

\* what encryptPAT would return if it joined the parts as iv:ciphertext:tag
EncryptWith_TagLast(key, iv, token) ==
  LET ct  == GcmCrypt(key, iv, Utf8Bytes(token))
      tag == GcmTag(key, iv, ct)
  IN  Encode64(iv) \o << ":" >> \o Encode64(ct) \o << ":" >> \o Encode64(tag)

\* encryptPAT lines 38-57, after the key is known: encrypt under a fresh
\* nonce and join Base64(iv), Base64(tag), Base64(ciphertext) with ':'
EncryptWith(key, iv, token) ==
  LET ct  == GcmCrypt(key, iv, Utf8Bytes(token))
      tag == GcmTag(key, iv, ct)
  IN  Encode64(iv) \o << ":" >> \o Encode64(tag) \o << ":" >> \o Encode64(ct)

\* the check of decryptPAT with `parts.length < 3` in place of `!== 3`
HasThreeParts_AtLeast(encryptedToken) ==
  /\ Len(encryptedToken) > 0
  /\ Includes(encryptedToken, << ":" >>)
  /\ Len(Split(encryptedToken, ":")) >= 3

\* decryptPAT lines 66-71: the checks made before the key is fetched
HasThreeParts(encryptedToken) ==
  /\ Len(encryptedToken) > 0
  /\ Includes(encryptedToken, << ":" >>)
  /\ Len(Split(encryptedToken, ":")) = 3

NoText == << "null" >>

\* decryptPAT reading the parts as iv:ciphertext:tag
DecryptWith_TagLast(key, encryptedToken) ==
  LET parts == Split(encryptedToken, ":")
      iv    == Decode64(parts[1])
      ct    == Decode64(parts[2])
      tag   == Decode64(parts[3])
      plain == GcmCrypt(key, iv, ct)
  IN  IF Len(parts) < 3 \/ ~ValidKey(key) THEN NoText
      ELSE IF tag # GcmTag(key, iv, ct) THEN NoText
      ELSE IF \E i \in 1..Len(plain) : ~IsTextByte(plain[i]) THEN NoText
      ELSE [ i \in 1..Len(plain) |-> CodeChar(plain[i]) ]

\* decryptPAT lines 73-99, after the key is known: the plaintext when the
\* tag authenticates, NoText (null) when it does not or when anything throws
DecryptWith(key, encryptedToken) ==
  LET parts == Split(encryptedToken, ":")
      iv    == Decode64(parts[1])
      tag   == Decode64(parts[2])
      ct    == Decode64(parts[3])
      plain == GcmCrypt(key, iv, ct)
  IN  IF Len(parts) < 3 \/ ~ValidKey(key) THEN NoText
      ELSE IF tag # GcmTag(key, iv, ct) THEN NoText
      ELSE IF \E i \in 1..Len(plain) : ~IsTextByte(plain[i]) THEN NoText
      ELSE [ i \in 1..Len(plain) |-> CodeChar(plain[i]) ]

(***************************************************************************)
(* JavaScript values                                                       *)
(***************************************************************************)

Undefined == [ t |-> "undefined" ]
Null == [ t |-> "null" ]
Str(s) == [ t |-> "string", s |-> s ]
Bool(b) == [ t |-> "boolean", b |-> b ]
Flags(on) == [ t |-> "object", on |-> on ]
Date == [ t |-> "date" ]

\* the truthiness test of `if (v)` and `!v`
Truthy(v) ==
  CASE v.t = "string" -> Len(v.s) > 0
    [] v.t = "boolean" -> v.b
    [] v.t \in {"object", "text", "date"} -> TRUE
    [] OTHER -> FALSE

\* new Error(message): an instance of Error, without a `code` property
Error(message) == [ isError |-> TRUE, hasCode |-> FALSE, message |-> message ]

\* how a call stands: still running, resolved with a value, or rejected
Pending == [ kind |-> "pending" ]
Returned(v) == [ kind |-> "return", value |-> v ]
Thrown(e) == [ kind |-> "throw", error |-> e ]

\* A persisted text is kept as what JSON.parse makes of it: the value it
\* parses to, or, for a text that is not JSON, the characters themselves.
JsonText(v) == [ t |-> "text", parses |-> TRUE, v |-> v ]
PlainText(s) == [ t |-> "text", parses |-> FALSE, v |-> Str(s) ]

NowIso == << "2", "0", "2", "6" >>

\* JSON.stringify: a Date is written as its ISO string (properties that
\* are undefined are left out of the text, and read back as undefined)
JSONstringify(o) ==
  JsonText([ o EXCEPT !.createdAt = IF @.t = "date" THEN Str(NowIso) ELSE @ ])

\* JSON.parse: the parsed value, or a SyntaxError
JSONparse(text) ==
  IF text.parses THEN Returned(text.v) ELSE Thrown(Error("SyntaxError"))

\* reading property f of a parsed value: a TypeError on null, undefined
\* on a value that has no such property
GetProp(v, f) ==
  IF v.t \in {"null", "undefined"} THEN Thrown(Error("TypeError"))
  ELSE IF f \in DOMAIN v THEN Returned(v[f]) ELSE Returned(Undefined)

(***************************************************************************)
(* Inputs                                                                  *)
(***************************************************************************)

\* two tokens that pass validatePATFormat
TokenA == [ i \in 1..PatLength |-> B64Alphabet[((i * 7) % 64) + 1] ]
TokenB == [ i \in 1..PatLength |-> B64Alphabet[((i * 11 + 5) % 64) + 1] ]
\* tokens that do not: one character short, and a character outside the
\* alphabet
TokenShort == SubSeq(TokenA, 1, PatLength - 1)
TokenDash == [ TokenA EXCEPT ![3] = "-" ]
NoToken == << >>

OrgAcme == << "a", "c", "m", "e" >>
OrgContoso == << "c", "o", "n", "t", "o", "s", "o" >>
PatternAC == << "A", "C", "1" >>
UrlOne == << "h", "t", "t", "p", "s", ":", "/", "/", "d", "/", "p", "1" >>
UrlTwo == << "h", "t", "t", "p", "s", ":", "/", "/", "d", "/", "p", "2" >>

Config(org, pat, ac, vis) ==
  [ organization |-> org, pat |-> pat, acPattern |-> ac, visibleFields |-> vis ]

\* the payloads of storeConfig
Configs ==
  { Config(OrgAcme, TokenA, Undefined, Undefined),
    Config(OrgContoso, TokenB, Str(PatternAC), Flags({"tags"})),
    Config(OrgContoso, NoToken, Str(PatternAC), Flags({"tags"})),
    Config(OrgAcme, TokenShort, Undefined, Undefined) }

Urls == { UrlOne, UrlTwo }

Procs == { "p1", "p2" }

\* calls started in one behaviour
MaxCalls == 3

(***************************************************************************)
(* State                                                                   *)
(***************************************************************************)

VARIABLES
  configSlot,  \* clientStorage['azure_devops_config']: Undefined or a text
  keySlot,     \* clientStorage['pbi_plugin_encryption_key_v2']
  draws,       \* random draws made so far
  call,        \* per process: the call it runs and the call's locals
  started,     \* number of calls started
  budget,      \* number of calls that may be started
  cleared,     \* history: clearConfig completed, no store started since
  trail,       \* history: a storeConfig/retrieveConfig pair run on its own
  batch,       \* the validateMultiplePBIs call and the requests it has sent
  parser,      \* the work item the URLs are built for, and the URLs parsed
  widget       \* the widget's synced state and the handlers that run on it

vars ==
  << configSlot, keySlot, draws, call, started, budget, cleared, trail, batch,
     parser, widget >>

\* no validateMultiplePBIs call: the input array, the start of the group in
\* hand, the validatePBI calls of that group, the results pushed so far, the
\* requests sent and not yet answered, and as history the requests ever sent,
\* what getPBIData rejected with and what validatePBI resolved with for each
\* identifier, and whether a call settled before an earlier one of its group
NoBatch ==
  [ pc |-> "none", inputs |-> << >>, i |-> 0, slots |-> << >>,
    results |-> << >>, net |-> {}, sent |-> {}, rejected |-> << >>,
    outcome |-> << >>, overtook |-> FALSE ]

\* the widget as PBIWidget's useSyncedState creates it (the fields the
\* handlers below read or write), with no handler running
DefaultWidth == 340

DefaultState ==
  [ pbiInfo |-> [ t |-> "none" ], currentData |-> [ t |-> "null" ],
    isLoading |-> FALSE, error |-> [ t |-> "null" ], customWidth |-> DefaultWidth ]

WidgetProcs == { "h1" }

NoHandler == [ op |-> "none", pc |-> "done", seen |-> DefaultState ]

NoWidget ==
  [ state |-> DefaultState, run |-> [ h \in WidgetProcs |-> NoHandler ],
    calls |-> 0 ]

\* no URL parsed yet, for no work item
NoParser ==
  [ organization |-> << >>, project |-> << >>, workItemId |-> 0, parsed |-> {} ]

Idle ==
  [ op |-> "none", pc |-> "done", config |-> Undefined, arg |-> Undefined,
    raw |-> Undefined, keyRead |-> Undefined, storedKey |-> Undefined,
    result |-> Pending,
    note |-> Undefined,   \* history: where the argument came from
    response |-> Undefined,  \* getPBIData: the response fetch resolved with
    built |-> Undefined,  \* getPBIData: the error handleAPIError resolved with
    elapsed |-> 0 ]       \* getPBIData: seconds since the request was sent

NoTrail == [ phase |-> "none" ]

(***************************************************************************)
(* History variables                                                       *)
(***************************************************************************)

\* trail follows the storeConfig call with a token that completed last, and
\* the retrieveConfig started after it, for as long as no other call takes
\* a step after the storeConfig has completed; `keyKept` says that the key
\* slot still held the key the token was encrypted under when it completed
TrailAfter(p, c, isStart) ==
  IF /\ c.op = "storeConfig" /\ c.pc = "done" /\ c.result.kind = "return"
     /\ Len(c.config.pat) > 0
  THEN [ phase |-> "stored", q |-> p, keyKept |-> (c.storedKey = keySlot),
         organization |-> c.config.organization, pat |-> c.config.pat ]
  ELSE IF isStart /\ c.op = "retrieveConfig" /\ trail.phase = "stored"
  THEN [ trail EXCEPT !.phase = "retrieving", !.q = p ]
  ELSE IF ~isStart /\ trail.phase = "retrieving" /\ trail.q = p
  THEN IF c.pc # "done" THEN trail ELSE [ trail EXCEPT !.phase = "retrieved" ]
  ELSE NoTrail

ClearedAfter(c, isStart) ==
  IF isStart /\ c.op \in {"storeConfig", "storeLastBaseUrl"} THEN FALSE
  ELSE IF c.op = "clearConfig" /\ c.pc = "done" THEN TRUE
  ELSE cleared

\* process p moves to call record c
Advance(p, c, isStart) ==
  /\ call' = [ call EXCEPT ![p] = c ]
  /\ started' = IF isStart THEN started + 1 ELSE started
  /\ trail' = TrailAfter(p, c, isStart)
  /\ cleared' = ClearedAfter(c, isStart)
  /\ UNCHANGED << budget, batch, parser, widget >>

CanStart(p) == call[p].pc = "done" /\ started < budget

NewCall(op) == [ Idle EXCEPT !.op = op, !.pc = "start" ]

\* the call settles with an outcome
Finish(c, outcome) == [ c EXCEPT !.pc = "done", !.result = outcome ]

(***************************************************************************)
(* getOrGenerateKey and the two cipher entry points                        *)
(***************************************************************************)

\* getOrGenerateKey line 28: the key generated when the slot was empty
FreshStoredKey(draw) == Str(Encode64(generateKeyBytes(draw)))

\* getOrGenerateKey line 32
KeyOf(storedKey) == Decode64(storedKey.s)

\* encryptPAT lines 38-61 once getOrGenerateKey has returned; any
\* exception is replaced by Error('Encryption failed')
EncryptOutcome(storedKey, draw, token) ==
  IF ~ValidKey(KeyOf(storedKey)) THEN Thrown(Error("Encryption failed"))
  ELSE Returned(Str(EncryptWith(KeyOf(storedKey), RandomBytes(draw, IvLength), token)))

\* decryptPAT lines 66-71: only a string of three ':'-separated parts gets
\* as far as the key; every other argument yields null
DecryptNeedsKey(enc) == enc.t = "string" /\ HasThreeParts(enc.s)

(***************************************************************************)
(* Config store: storeConfig                                               *)
(***************************************************************************)

\* the object storeConfig would build if it kept the token as given
StoredConfigOf_Plain(config, encryptedPat) ==
  [ t |-> "object",
    organization |-> Str(config.organization),
    encryptedPat |-> IF Len(config.pat) > 0 THEN Str(config.pat) ELSE encryptedPat,
    acPattern |-> IF Truthy(config.acPattern) THEN config.acPattern ELSE Str(<< >>),
    visibleFields |-> config.visibleFields,
    lastBaseUrl |-> Undefined,
    createdAt |-> Date ]

\* the StoredConfig object of storeConfig lines 291-297
StoredConfigOf(config, encryptedPat) ==
  [ t |-> "object",
    organization |-> Str(config.organization),
    encryptedPat |-> encryptedPat,
    acPattern |-> IF Truthy(config.acPattern) THEN config.acPattern ELSE Str(<< >>),
    visibleFields |-> config.visibleFields,
    lastBaseUrl |-> Undefined,
    createdAt |-> Date ]

\* lines 265-282 up to the first storage access: the format check, then
\* either the key is fetched (new token) or the stored blob (no token)
StoreConfig_Start(p, config) ==
  /\ CanStart(p)
  /\ LET c == [ NewCall("storeConfig") EXCEPT !.config = config ]
     IN  IF Len(config.pat) > 0 /\ ~validatePATFormat(config.pat)
         THEN Advance(p, Finish(c, Thrown(Error("Invalid PAT format."))), TRUE)
         ELSE IF Len(config.pat) > 0
         THEN Advance(p, [ c EXCEPT !.pc = "key_read", !.keyRead = keySlot ], TRUE)
         ELSE Advance(p, [ c EXCEPT !.pc = "carry", !.raw = configSlot ], TRUE)
  /\ UNCHANGED << configSlot, keySlot, draws >>

\* encryptPAT to the end of storeConfig, once the key is in hand
StoreEncrypted(p, c, storedKey) ==
  LET enc == EncryptOutcome(storedKey, draws + 1, c.config.pat)
  IN  /\ draws' = draws + 1
      /\ UNCHANGED keySlot
      /\ IF enc.kind = "throw"
         THEN /\ Advance(p, Finish(c, enc), FALSE)
              /\ UNCHANGED configSlot
         ELSE /\ configSlot' = JSONstringify(StoredConfigOf(c.config, enc.value))
              /\ Advance(p, Finish(c, Returned(Undefined)), FALSE)

\* lines 278-288: the encrypted token of the blob that was read
ExistingEncryptedPat(existingRaw) ==
  IF ~Truthy(existingRaw) THEN Returned(Str(<< >>))
  ELSE LET parsed == JSONparse(existingRaw)
       IN  IF parsed.kind = "throw" THEN parsed
           ELSE GetProp(parsed.value, "encryptedPat")

\* no token given: carry the stored encrypted token forward, or fail
StoreConfig_Carry(p) ==
  /\ call[p].op = "storeConfig" /\ call[p].pc = "carry"
  /\ LET existing == ExistingEncryptedPat(call[p].raw)
     IN  IF existing.kind = "throw"
         THEN /\ Advance(p, Finish(call[p], existing), FALSE)
              /\ UNCHANGED configSlot
         ELSE IF ~Truthy(existing.value)
         THEN /\ Advance(p, Finish(call[p], Thrown(Error("PAT is required."))), FALSE)
              /\ UNCHANGED configSlot
         ELSE /\ configSlot' = JSONstringify(StoredConfigOf(call[p].config, existing.value))
              /\ Advance(p, Finish(call[p], Returned(Undefined)), FALSE)
  /\ UNCHANGED << keySlot, draws >>

(***************************************************************************)
(* Config store: storeLastBaseUrl, retrieveConfig, getConfigInfo, clear    *)
(***************************************************************************)

\* storeLastBaseUrl line 313: the blob is read
StoreLastBaseUrl_Start(p, url) ==
  /\ CanStart(p)
  /\ Advance(p, [ NewCall("storeLastBaseUrl") EXCEPT
                    !.pc = "write_url", !.arg = Str(url), !.raw = configSlot ], TRUE)
  /\ UNCHANGED << configSlot, keySlot, draws >>

\* lines 316-328: the object that is written back, or what is thrown
WithLastBaseUrl(existingRaw, url) ==
  IF ~Truthy(existingRaw)
  THEN Returned([ t |-> "object", organization |-> Str(<< >>),
                  encryptedPat |-> Str(<< >>), acPattern |-> Str(<< >>),
                  visibleFields |-> Undefined, lastBaseUrl |-> url,
                  createdAt |-> Date ])
  ELSE LET parsed == JSONparse(existingRaw)
       IN  IF parsed.kind = "throw" THEN parsed
           ELSE IF parsed.value.t # "object" THEN Thrown(Error("TypeError"))
           ELSE Returned([ parsed.value EXCEPT !.lastBaseUrl = url ])

\* lines 330-333: the write; an exception is logged and swallowed
StoreLastBaseUrl_Write(p) ==
  /\ call[p].op = "storeLastBaseUrl" /\ call[p].pc = "write_url"
  /\ LET storedConfig == WithLastBaseUrl(call[p].raw, call[p].arg)
     IN  IF storedConfig.kind = "throw"
         THEN UNCHANGED configSlot
         ELSE configSlot' = JSONstringify(storedConfig.value)
  /\ Advance(p, Finish(call[p], Returned(Undefined)), FALSE)
  /\ UNCHANGED << keySlot, draws >>

\* JSON.parse(storedData) followed by parsedData.encryptedPat
ReadEncryptedPat(storedData) ==
  LET parsed == JSONparse(storedData)
  IN  IF parsed.kind = "throw" THEN parsed
      ELSE GetProp(parsed.value, "encryptedPat")

PropOf(storedData, f) == GetProp(JSONparse(storedData).value, f).value

\* retrieveConfig lines 348-359: null unless a token came out
RetrieveResult(storedData, pat) ==
  IF pat = NoText \/ Len(pat) = 0 THEN Returned(Null)
  ELSE Returned([ t |-> "object",
                  organization |-> PropOf(storedData, "organization"),
                  pat |-> Str(pat),
                  acPattern |-> PropOf(storedData, "acPattern"),
                  visibleFields |-> PropOf(storedData, "visibleFields"),
                  lastBaseUrl |-> PropOf(storedData, "lastBaseUrl") ])

\* what getConfigInfo would report if pat only said that a token is stored
InfoResult_Stored(storedData, pat) ==
  Returned([ t |-> "object",
             organization |-> PropOf(storedData, "organization"),
             acPattern |-> PropOf(storedData, "acPattern"),
             visibleFields |-> PropOf(storedData, "visibleFields"),
             pat |-> Bool(Truthy(PropOf(storedData, "encryptedPat"))),
             lastBaseUrl |-> PropOf(storedData, "lastBaseUrl") ])

\* getConfigInfo lines 377-383: pat is !!(decrypted token)
InfoResult(storedData, pat) ==
  Returned([ t |-> "object",
             organization |-> PropOf(storedData, "organization"),
             acPattern |-> PropOf(storedData, "acPattern"),
             visibleFields |-> PropOf(storedData, "visibleFields"),
             pat |-> Bool(pat # NoText /\ Len(pat) > 0),
             lastBaseUrl |-> PropOf(storedData, "lastBaseUrl") ])

ReadResult(op, storedData, pat) ==
  IF op = "retrieveConfig" THEN RetrieveResult(storedData, pat)
  ELSE InfoResult(storedData, pat)

\* retrieveConfig without its catch
RetrieveCatch_Rethrow(outcome) == outcome

\* the catch of retrieveConfig (line 360) and of getConfigInfo (line 384)
RetrieveCatch(outcome) ==
  IF outcome.kind = "throw" THEN Returned(Null) ELSE outcome

InfoCatch(outcome) ==
  IF outcome.kind = "throw" THEN Returned(Null) ELSE outcome

ReadCatch(op, outcome) ==
  IF op = "retrieveConfig" THEN RetrieveCatch(outcome) ELSE InfoCatch(outcome)

\* both readers start by fetching the blob
Read_Start(p, op) ==
  /\ CanStart(p)
  /\ Advance(p, [ NewCall(op) EXCEPT !.pc = "parse", !.raw = configSlot ], TRUE)
  /\ UNCHANGED << configSlot, keySlot, draws >>

\* the blob has arrived: absent gives null; otherwise it is parsed and
\* decryptPAT runs as far as its request for the key
Read_Parse(p, op) ==
  /\ call[p].op = op /\ call[p].pc = "parse"
  /\ LET c == call[p]
         enc == ReadEncryptedPat(c.raw)
     IN  IF ~Truthy(c.raw)
         THEN Advance(p, Finish(c, Returned(Null)), FALSE)
         ELSE IF enc.kind = "throw"
         THEN Advance(p, Finish(c, ReadCatch(op, enc)), FALSE)
         ELSE IF ~DecryptNeedsKey(enc.value)
         THEN Advance(p, Finish(c, ReadCatch(op, ReadResult(op, c.raw, NoText))), FALSE)
         ELSE Advance(p, [ c EXCEPT !.pc = "key_read", !.keyRead = keySlot ], FALSE)
  /\ UNCHANGED << configSlot, keySlot, draws >>

\* decryptPAT to the end of the reader, once the key is in hand
ReadDecrypted(p, c, storedKey) ==
  /\ Advance(p, Finish(c, ReadCatch(c.op,
               ReadResult(c.op, c.raw,
                          DecryptWith(KeyOf(storedKey), ReadEncryptedPat(c.raw).value.s)))),
             FALSE)
  /\ UNCHANGED << configSlot, keySlot, draws >>

RetrieveConfig_Start(p) == Read_Start(p, "retrieveConfig")
RetrieveConfig_Parse(p) == Read_Parse(p, "retrieveConfig")

GetConfigInfo_Start(p) == Read_Start(p, "getConfigInfo")
GetConfigInfo_Parse(p) == Read_Parse(p, "getConfigInfo")

\* clearConfig: deleteAsync on the config slot, nothing else
ClearConfig(p) ==
  /\ CanStart(p)
  /\ configSlot' = Undefined
  /\ Advance(p, Finish(NewCall("clearConfig"), Returned(Undefined)), TRUE)
  /\ UNCHANGED << keySlot, draws >>

(***************************************************************************)
(* encryptPAT and decryptPAT called on their own                           *)
(***************************************************************************)

\* encryptPAT line 37: the key is asked for first
EncryptPAT_Start(p, token) ==
  /\ CanStart(p)
  /\ Advance(p, [ NewCall("encryptPAT") EXCEPT
                    !.pc = "key_read", !.arg = Str(token), !.keyRead = keySlot ], TRUE)
  /\ UNCHANGED << configSlot, keySlot, draws >>

\* encryptPAT lines 38-61
EncryptReturned(p, c, storedKey) ==
  /\ Advance(p, [ Finish(c, EncryptOutcome(storedKey, draws + 1, c.arg.s))
                    EXCEPT !.note = [ t |-> "end", slotAtEnd |-> keySlot ] ], FALSE)
  /\ draws' = draws + 1
  /\ UNCHANGED << configSlot, keySlot >>

\* decryptPAT lines 66-75: null at once for a malformed argument, else the
\* key is asked for
DecryptPAT_Start(p, encryptedToken, note) ==
  /\ CanStart(p)
  /\ LET c == [ NewCall("decryptPAT") EXCEPT !.arg = encryptedToken, !.note = note ]
     IN  IF ~DecryptNeedsKey(encryptedToken)
         THEN Advance(p, Finish(c, Returned(Null)), TRUE)
         ELSE Advance(p, [ c EXCEPT !.pc = "key_read", !.keyRead = keySlot ], TRUE)
  /\ UNCHANGED << configSlot, keySlot, draws >>

\* decryptPAT lines 76-99
DecryptOutcome(storedKey, encryptedToken) ==
  LET plain == DecryptWith(KeyOf(storedKey), encryptedToken)
  IN  IF plain = NoText THEN Returned(Null) ELSE Returned(Str(plain))

DecryptReturned(p, c, storedKey) ==
  /\ Advance(p, Finish(c, DecryptOutcome(storedKey, c.arg.s)), FALSE)
  /\ UNCHANGED << configSlot, keySlot, draws >>

\* getOrGenerateKey line 27, for the mutation that generates a key at every
\* call
KeyAbsent_Always(storedKey) == TRUE

\* getOrGenerateKey line 27: nothing usable was read from the key slot
KeyAbsent(storedKey) == ~Truthy(storedKey)

\* getOrGenerateKey returns to the call that awaits it
KeyReturned(p, c, storedKey) ==
  CASE c.op = "storeConfig" -> StoreEncrypted(p, c, storedKey)
    [] c.op = "encryptPAT" -> EncryptReturned(p, c, storedKey)
    [] c.op = "decryptPAT" -> DecryptReturned(p, c, storedKey)
    [] OTHER -> ReadDecrypted(p, c, storedKey)

\* getOrGenerateKey lines 25-32, resumed with what getAsync read: an empty
\* slot makes it generate a key and persist it, a key is returned at once
GetOrGenerateKey_Read(p) ==
  /\ call[p].pc = "key_read"
  /\ IF KeyAbsent(call[p].keyRead)
     THEN /\ keySlot' = FreshStoredKey(draws + 1)
          /\ draws' = draws + 1
          /\ Advance(p, [ call[p] EXCEPT !.pc = "key_set",
                                         !.storedKey = FreshStoredKey(draws + 1) ], FALSE)
          /\ UNCHANGED configSlot
     ELSE KeyReturned(p, [ call[p] EXCEPT !.storedKey = call[p].keyRead ],
                      call[p].keyRead)

\* getOrGenerateKey line 32, resumed after setAsync: the key this call
\* generated is returned, whatever the slot holds by now
GetOrGenerateKey_Set(p) ==
  /\ call[p].pc = "key_set"
  /\ KeyReturned(p, call[p], call[p].storedKey)

\* a fresh installation: both slots empty
Fresh ==
  /\ configSlot = Undefined
  /\ keySlot = Undefined
  /\ draws = 0

\* an installation on which storeConfig has run in an earlier session
Installed ==
  /\ keySlot = FreshStoredKey(1)
  /\ configSlot = JSONstringify(StoredConfigOf(
                    Config(OrgAcme, TokenA, Undefined, Undefined),
                    EncryptOutcome(FreshStoredKey(1), 2, TokenA).value))
  /\ draws = 2

AtRest ==
  /\ call = [ p \in Procs |-> Idle ]
  /\ batch = NoBatch
  /\ parser = NoParser
  /\ widget = NoWidget
  /\ started = 0
  /\ cleared = FALSE
  /\ trail = NoTrail

Init ==
  /\ Fresh \/ Installed
  /\ AtRest
  /\ budget = MaxCalls

Next ==
  \E p \in Procs :
    \/ \E config \in Configs : StoreConfig_Start(p, config)
    \/ StoreConfig_Carry(p)
    \/ \E url \in Urls : StoreLastBaseUrl_Start(p, url)
    \/ StoreLastBaseUrl_Write(p)
    \/ RetrieveConfig_Start(p)
    \/ RetrieveConfig_Parse(p)
    \/ GetConfigInfo_Start(p)
    \/ GetConfigInfo_Parse(p)
    \/ ClearConfig(p)
    \/ GetOrGenerateKey_Read(p)
    \/ GetOrGenerateKey_Set(p)

Spec == Init /\ [][Next]_vars

(***************************************************************************)
(* Storage left behind by something other than this version of the code    *)
(***************************************************************************)

\* calls started in one behaviour that begins from foreign storage
MaxForeignCalls == 2

InstalledBlob ==
  JSONstringify(StoredConfigOf(Config(OrgAcme, TokenA, Undefined, Undefined),
                               EncryptOutcome(FreshStoredKey(1), 2, TokenA).value))

\* the blob is not JSON (__tests__/services/patStorage.test.ts line 144)
Corrupt ==
  /\ configSlot = PlainText(<< "i", "n", "v", "a", "l", "i", "d", "-", "j", "s",
                               "o", "n", "-", "d", "a", "t", "a" >>)
  /\ keySlot = Undefined
  /\ draws = 0

\* the blob is the JSON text null
NullBlob ==
  /\ configSlot = JsonText(Null)
  /\ keySlot = FreshStoredKey(1)
  /\ draws = 1

\* the key slot was emptied, the blob was not
KeyLost ==
  /\ configSlot = InstalledBlob
  /\ keySlot = Undefined
  /\ draws = 2

\* the key slot holds another key than the one the blob was encrypted under
KeyReplaced ==
  /\ configSlot = InstalledBlob
  /\ keySlot = FreshStoredKey(3)
  /\ draws = 3

\* a blob of the previous release (services/configStorage.js): encryptedPat
\* is one Base64 text without ':'
Legacy ==
  /\ configSlot = JSONstringify(StoredConfigOf(
                    Config(OrgAcme, TokenA, Undefined, Undefined),
                    Str(Encode64(Utf8Bytes(TokenA)))))
  /\ keySlot = FreshStoredKey(1)
  /\ draws = 1

InitForeign ==
  /\ Fresh \/ Installed \/ Corrupt \/ NullBlob \/ KeyLost \/ KeyReplaced \/ Legacy
  /\ AtRest
  /\ budget = MaxForeignCalls

SpecForeign == InitForeign /\ [][Next]_vars

(***************************************************************************)
(* The cipher on its own                                                   *)
(***************************************************************************)

\* cipher calls started in one behaviour
MaxCipherCalls == 3

\* a key persisted in an earlier session, no config
KeyOnly ==
  /\ configSlot = Undefined
  /\ keySlot = FreshStoredKey(1)
  /\ draws = 1

\* arguments of decryptPAT that are not three ':'-separated parts
Malformed ==
  { Undefined,
    Str(<< >>),
    Str(<< "a", "b", "c" >>),
    Str(<< "a", "b", ":", "c", "d" >>),
    Str(<< ":", ":", ":" >>) }

\* what encryptPAT returned to process q, and where it came from
Produced(q) ==
  [ t |-> "source", token |-> call[q].arg.s,
    usedKey |-> call[q].storedKey, slotAtEnd |-> call[q].note.slotAtEnd ]

HasProduced(q) ==
  call[q].op = "encryptPAT" /\ call[q].pc = "done" /\ call[q].result.kind = "return"

InitCipher ==
  /\ Fresh \/ KeyOnly
  /\ AtRest
  /\ budget = MaxCipherCalls

NextCipher ==
  \E p \in Procs :
    \/ \E token \in { TokenA, TokenB, << "a", "b" >> } : EncryptPAT_Start(p, token)
    \/ \E arg \in Malformed : DecryptPAT_Start(p, arg, Undefined)
    \/ \E q \in Procs :
         /\ HasProduced(q)
         /\ \/ DecryptPAT_Start(p, call[q].result.value, Produced(q))
            \/ DecryptPAT_Start(p, Str(call[q].result.value.s \o << ":", "x" >>),
                                Undefined)
    \/ GetOrGenerateKey_Read(p)
    \/ GetOrGenerateKey_Set(p)

SpecCipher == InitCipher /\ [][NextCipher]_vars

(***************************************************************************)
(* AzureDevOpsClient.getPBIData                                            *)
(***************************************************************************)

\* requests started in one behaviour
MaxRequests == 3

\* the timer of getPBIData, in seconds (10000 ms)
TimeoutSeconds == 10

\* the userMessage argument at each call of createAPIError: every call site
\* passes a fixed text chosen by the code of the error
UserMessage(code) ==
  CASE code = "NETWORK_ERROR" ->
         "Unable to connect to Azure DevOps. Please check your internet connection."
    [] code = "INVALID_PAT" ->
         "Your Personal Access Token is invalid or expired. Please update your credentials."
    [] code = "INSUFFICIENT_PERMISSIONS" ->
         "Your Personal Access Token lacks the required permissions to access this work item."
    [] code = "WORK_ITEM_NOT_FOUND" ->
         "The specified work item does not exist or you do not have access to it."
    [] code = "RATE_LIMIT_EXCEEDED" ->
         "Too many requests. Please wait a moment before trying again."
    [] code = "SERVER_ERROR" ->
         "Azure DevOps service is temporarily unavailable. Please try again later."
    [] code = "API_ERROR" ->
         "An unexpected error occurred while accessing Azure DevOps."
    [] code = "INVALID_PBI_INFO" ->
         "The provided work item information is incomplete or invalid."
    [] code = "INVALID_PBI_DATA" ->
         "The work item data from Azure DevOps is missing required fields."
    [] OTHER ->
         "Unable to validate the work item. Please check your connection and try again."

\* ValidationService.createAPIError: a plain object, not an Error
createAPIError(code, message, retryable) ==
  [ isError |-> FALSE, hasCode |-> TRUE, code |-> code,
    message |-> message, userMessage |-> UserMessage(code),
    retryable |-> retryable ]

\* createAuthHeader: 'Basic ' and the Base64 of ':' (byte 58) and the token
\* without its non-alphanumeric characters
createAuthHeader(pat) ==
  LET cleanPat == SelectSeq(pat, LAMBDA ch : ch \in B64Chars \ { "+", "/" })
  IN  << "B", "a", "s", "i", "c", " " >> \o Encode64(<< 58 >> \o Utf8Bytes(cleanPat))

\* what the remote side may answer: a status and a body that is a work
\* item, an object with a message, or not JSON at all
Statuses == { 200, 401, 403, 404, 429, 500, 501, 503, 418 }
Bodies == { "workItem", "message", "text" }
Response(status, body) == [ status |-> status, body |-> body ]

\* response.ok
Ok(response) == response.status >= 200 /\ response.status <= 299

\* response.json()
ResponseJson(response) ==
  IF response.body = "text" THEN Thrown(Error("SyntaxError"))
  ELSE Returned(response.body)

\* handleAPIError, the switch on the status once the body has parsed
ErrorForStatus(status, message) ==
  CASE status = 401 -> createAPIError("INVALID_PAT", message, FALSE)
    [] status = 403 -> createAPIError("INSUFFICIENT_PERMISSIONS", message, FALSE)
    [] status = 404 -> createAPIError("WORK_ITEM_NOT_FOUND", message, FALSE)
    [] status = 429 -> createAPIError("RATE_LIMIT_EXCEEDED", message, TRUE)
    [] status \in { 500, 502, 503, 504 } -> createAPIError("SERVER_ERROR", message, TRUE)
    [] OTHER -> createAPIError("API_ERROR", message, FALSE)

\* handleAPIError: the APIError it resolves with
handleAPIError(response) ==
  IF ResponseJson(response).kind = "throw"
  THEN createAPIError("API_ERROR", "Unable to parse error response",
                      response.status >= 500)
  ELSE ErrorForStatus(response.status,
                      IF response.body = "message" THEN "given"
                      ELSE "Unknown API error")

\* the catch of getPBIData re-throwing whatever it caught
Caught_Rethrow(error) == Thrown(error)

\* getPBIData, the catch: an Error that carries a code is re-thrown,
\* anything else becomes a NETWORK_ERROR
Caught(error) ==
  IF error.isError /\ error.hasCode THEN Thrown(error)
  ELSE Thrown(createAPIError("NETWORK_ERROR",
                             IF error.isError THEN error.message ELSE "Unknown error",
                             TRUE))

\* getPBIData after the race was won by the response: the work item, or
\* what the catch makes of the error
AfterResponse(response) ==
  IF ~Ok(response) THEN Caught(handleAPIError(response))
  ELSE IF ResponseJson(response).kind = "throw"
       THEN Caught(ResponseJson(response).error)
       ELSE Returned([ t |-> "pbi", from |-> response.body ])

\* getPBIData up to the await of the race: the request is sent
GetPBIData_Start(p, pat) ==
  /\ CanStart(p)
  /\ Advance(p, [ NewCall("getPBIData") EXCEPT
                    !.pc = "fetching", !.arg = Str(pat),
                    !.raw = Str(createAuthHeader(pat)) ], TRUE)
  /\ UNCHANGED << configSlot, keySlot, draws >>

\* fetch resolves before the timer fires; the timer no longer matters
FetchResolves(p, response) ==
  /\ call[p].op = "getPBIData" /\ call[p].pc = "fetching"
  /\ Advance(p, [ call[p] EXCEPT !.pc = "body", !.response = response,
                                  !.elapsed = 0 ], FALSE)
  /\ UNCHANGED << configSlot, keySlot, draws >>

\* the body has been read: getPBIData settles
BodyRead(p) ==
  /\ call[p].op = "getPBIData" /\ call[p].pc = "body"
  /\ Advance(p, Finish([ call[p] EXCEPT !.built =
                                 IF Ok(call[p].response) THEN Undefined
                                 ELSE handleAPIError(call[p].response) ],
                       AfterResponse(call[p].response)), FALSE)
  /\ UNCHANGED << configSlot, keySlot, draws >>

\* fetch rejects: no connection
FetchRejects(p) ==
  /\ call[p].op = "getPBIData" /\ call[p].pc = "fetching"
  /\ Advance(p, Finish([ call[p] EXCEPT !.elapsed = 0 ],
                       Caught(Error("Failed to fetch"))), FALSE)
  /\ UNCHANGED << configSlot, keySlot, draws >>

\* the timer fires first
TimerFires(p) ==
  /\ call[p].op = "getPBIData" /\ call[p].pc = "fetching"
  /\ call[p].elapsed = TimeoutSeconds
  /\ Advance(p, Finish([ call[p] EXCEPT !.elapsed = 0 ],
                       Caught(Error("Request timed out after 10 seconds"))), FALSE)
  /\ UNCHANGED << configSlot, keySlot, draws >>

Waiting(p) == call[p].op = "getPBIData" /\ call[p].pc = "fetching"

\* a second passes; a timer that is due fires before the next one does
Tick ==
  /\ \E p \in Procs : Waiting(p)
  /\ \A p \in Procs : Waiting(p) => call[p].elapsed < TimeoutSeconds
  /\ call' = [ p \in Procs |->
                IF Waiting(p) THEN [ call[p] EXCEPT !.elapsed = @ + 1 ] ELSE call[p] ]
  /\ UNCHANGED << configSlot, keySlot, draws, started, budget, cleared, trail,
                  batch, parser, widget >>

(***************************************************************************)
(* AzureDevOpsClient.validatePAT                                           *)
(***************************************************************************)

\* validatePAT up to the await of fetch: the request is sent, with no timer
ValidatePAT_Start(p, pat) ==
  /\ CanStart(p)
  /\ Advance(p, [ NewCall("validatePAT") EXCEPT
                    !.pc = "validating", !.arg = Str(pat),
                    !.raw = Str(createAuthHeader(pat)) ], TRUE)
  /\ UNCHANGED << configSlot, keySlot, draws >>

\* validatePAT answering anything but a 401 with true
ValidateResult_Not401(response) == Returned(Bool(response.status # 401))

\* validatePAT line 28: return response.ok
ValidateResult(response) == Returned(Bool(Ok(response)))

\* fetch resolves
ValidateResolves(p, response) ==
  /\ call[p].op = "validatePAT" /\ call[p].pc = "validating"
  /\ Advance(p, Finish([ call[p] EXCEPT !.response = response ],
                       ValidateResult(response)), FALSE)
  /\ UNCHANGED << configSlot, keySlot, draws >>

\* fetch rejects: the catch of validatePAT returns false
ValidateRejects(p) ==
  /\ call[p].op = "validatePAT" /\ call[p].pc = "validating"
  /\ Advance(p, Finish(call[p], Returned(Bool(FALSE))), FALSE)
  /\ UNCHANGED << configSlot, keySlot, draws >>

InitClient ==
  /\ Installed
  /\ AtRest
  /\ budget = MaxRequests

NextClient ==
  \/ \E p \in Procs :
       \/ \E pat \in { TokenA, TokenDash } : GetPBIData_Start(p, pat)
       \/ \E status \in Statuses, body \in Bodies :
            FetchResolves(p, Response(status, body))
       \/ BodyRead(p)
       \/ FetchRejects(p)
       \/ TimerFires(p)
       \/ \E pat \in { TokenA, TokenDash } : ValidatePAT_Start(p, pat)
       \/ \E status \in Statuses \cup { 204 } :
            ValidateResolves(p, Response(status, "message"))
       \/ ValidateRejects(p)
  \/ Tick

SpecClient == InitClient /\ [][NextClient]_vars

(***************************************************************************)
(* PBIValidationService: validatePBI and validateMultiplePBIs              *)
(***************************************************************************)

MaxBatch == 4

\* const batchSize = 3
BatchSize == 3

Whitespace == { " " }

\* String.prototype.trim
RECURSIVE Trim(_)
Trim(s) ==
  IF s = << >> THEN s
  ELSE IF Head(s) \in Whitespace THEN Trim(Tail(s))
  ELSE IF s[Len(s)] \in Whitespace THEN Trim(SubSeq(s, 1, Len(s) - 1))
  ELSE s

\* nameRegex = /^[a-zA-Z0-9\s\-_.( )]*$/
NameChars ==
  ({ B64Alphabet[i] : i \in 1..64 } \ { "+", "/" })
    \cup Whitespace \cup { "-", "_", ".", "(", ")" }

NameRegexTest(s) == \A i \in 1..Len(s) : s[i] \in NameChars

\* a ParsedPBIInfo
PBIInfo(organization, project, workItemId, url) ==
  [ organization |-> organization, project |-> project,
    workItemId |-> workItemId, url |-> url ]

\* validatePBIInfoStructure
validatePBIInfoStructure(pbiInfo) ==
  /\ Len(Trim(pbiInfo.organization)) # 0
  /\ Len(Trim(pbiInfo.project)) # 0
  /\ pbiInfo.workItemId > 0
  /\ Len(Trim(pbiInfo.url)) # 0
  /\ NameRegexTest(pbiInfo.organization)
  /\ NameRegexTest(pbiInfo.project)

\* ValidationService.validatePBIData on what transformWorkItem built: the
\* title, state, description and type have defaults, the id is the body's
\* own, so the data is complete exactly when the body was a work item
validatePBIData(data) == data.from = "workItem"

\* ValidationService.validateAPIError
validateAPIError(error) ==
  /\ error.hasCode
  /\ "message" \in DOMAIN error
  /\ "userMessage" \in DOMAIN error
  /\ "retryable" \in DOMAIN error

Valid(data) == [ isValid |-> TRUE, data |-> data ]
Invalid(error) == [ isValid |-> FALSE, error |-> error ]

\* validatePBI's catch, for the mutation that wraps every rejection
ValidateCatch_Wrap(error) ==
  Invalid(createAPIError("VALIDATION_ERROR",
                         IF error.isError THEN error.message ELSE "Unknown error",
                         TRUE))

\* validatePBI's catch
ValidateCatch(error) ==
  IF validateAPIError(error) THEN Invalid(error)
  ELSE Invalid(createAPIError("VALIDATION_ERROR",
                              IF error.isError THEN error.message ELSE "Unknown error",
                              TRUE))

\* validatePBI once getPBIData has settled, for the mutation without the
\* try/catch: what getPBIData throws leaves validatePBI as it is
validatePBI_Settled_Uncaught(outcome) ==
  IF outcome.kind = "throw" THEN outcome
  ELSE IF ~validatePBIData(outcome.value)
       THEN Invalid(createAPIError("INVALID_PBI_DATA",
                                   "Retrieved PBI data is incomplete or invalid",
                                   FALSE))
       ELSE Valid(outcome.value)

\* validatePBI once getPBIData has settled
validatePBI_Settled(outcome) ==
  IF outcome.kind = "throw" THEN ValidateCatch(outcome.error)
  ELSE IF ~validatePBIData(outcome.value)
       THEN Invalid(createAPIError("INVALID_PBI_DATA",
                                   "Retrieved PBI data is incomplete or invalid",
                                   FALSE))
       ELSE Valid(outcome.value)

\* validatePBI's answer without a request
InvalidInfo ==
  Invalid(createAPIError("INVALID_PBI_INFO", "Invalid PBI information structure",
                         FALSE))

\* one validatePBI call of a group: waiting for getPBIData, or settled
Slot(pc, result) == [ pc |-> pc, result |-> result ]

\* validatePBI up to its first await, for the mutation that skips the check
validatePBI_Start_Unchecked(pbiInfo) == Slot("fetching", Undefined)

\* validatePBI up to its first await
validatePBI_Start(pbiInfo) ==
  IF ~validatePBIInfoStructure(pbiInfo) THEN Slot("done", InvalidInfo)
  ELSE Slot("fetching", Undefined)

Min(a, b) == IF a < b THEN a ELSE b

\* pbiInfos.slice(i, i + batchSize)
Slice(s, i) == SubSeq(s, i + 1, Min(Len(s), i + BatchSize))

\* Promise.all's array, for the mutation that reverses a group
GroupResults_Reversed(slots) ==
  [ k \in 1..Len(slots) |-> slots[Len(slots) + 1 - k].result ]

\* the array Promise.all resolves with: the results by position in the group
GroupResults(slots) == [ k \in 1..Len(slots) |-> slots[k].result ]

\* batch.map(pbiInfo => this.validatePBI(pbiInfo, pat)): every call of the
\* group runs to its first await, so the requests of the group are all sent
IssueGroup(b, i) ==
  LET group == Slice(b.inputs, i)
      slots == [ k \in 1..Len(group) |-> validatePBI_Start(group[k]) ]
      asked == { i + k : k \in { j \in 1..Len(group) : slots[j].pc = "fetching" } }
  IN  [ b EXCEPT !.pc = "group", !.i = i, !.slots = slots,
                 !.net = @ \cup asked, !.sent = @ \cup asked,
                 !.outcome = [ n \in 1..Len(b.inputs) |->
                                 IF n - i \in 1..Len(group)
                                 THEN slots[n - i].result ELSE @[n] ] ]

BatchStep(b) ==
  /\ batch' = b
  /\ UNCHANGED << configSlot, keySlot, draws, call, started, budget, cleared,
                  trail, parser, widget >>

\* validateMultiplePBIs up to its first await
ValidateMultiplePBIs_Start ==
  /\ batch.pc = "start"
  /\ BatchStep(IF Len(batch.inputs) = 0 THEN [ batch EXCEPT !.pc = "done" ]
               ELSE IssueGroup(batch, 0))

Fetching(k) ==
  /\ batch.pc = "group"
  /\ k \in 1..Len(batch.slots)
  /\ batch.slots[k].pc = "fetching"

SettleSlot(k, outcome, answered) ==
  BatchStep([ batch EXCEPT
                !.slots[k] = Slot("done", validatePBI_Settled(outcome)),
                !.net = IF answered THEN @ \ { batch.i + k } ELSE @,
                !.rejected[batch.i + k] =
                   IF outcome.kind = "throw" THEN outcome.error ELSE Undefined,
                !.outcome[batch.i + k] = validatePBI_Settled(outcome),
                !.overtook = @ \/ \E j \in 1..(k - 1) : Fetching(j) ])

\* the response of a request of the group arrives and its body is read
Batch_FetchResolves(k, response) ==
  /\ Fetching(k)
  /\ SettleSlot(k, AfterResponse(response), TRUE)

\* the request of a call of the group fails
Batch_FetchRejects(k) ==
  /\ Fetching(k)
  /\ SettleSlot(k, Caught(Error("Failed to fetch")), TRUE)

\* ten seconds have passed: the timer of a call of the group wins its race;
\* nothing cancels the request, which stays with the remote side
Batch_TimerFires(k) ==
  /\ Fetching(k)
  /\ SettleSlot(k, Caught(Error("Request timed out after 10 seconds")), FALSE)

\* the remote side answers a request whose call has already timed out
Batch_LateAnswer(n) ==
  /\ n \in batch.net
  /\ ~Fetching(n - batch.i)
  /\ BatchStep([ batch EXCEPT !.net = @ \ { n } ])

\* Promise.all resolves: the results of the group are pushed and the loop
\* goes on to the next group, or the call returns
Batch_GroupDone ==
  /\ batch.pc = "group"
  /\ \A k \in 1..Len(batch.slots) : batch.slots[k].pc = "done"
  /\ LET pushed == [ batch EXCEPT !.results = @ \o GroupResults(batch.slots),
                                  !.slots = << >> ]
     IN  BatchStep(IF batch.i + BatchSize < Len(batch.inputs)
                   THEN IssueGroup(pushed, batch.i + BatchSize)
                   ELSE [ pushed EXCEPT !.pc = "done" ])

\* the identifiers handed to validateMultiplePBIs: well-formed ones, ones
\* without an organization and ones without a usable id or project name
InfoKinds == { "ok", "noOrganization", "zeroId", "badProject" }

InfoOf(kind, n) ==
  CASE kind = "ok" -> PBIInfo(OrgAcme, << "p" >>, n, UrlOne)
    [] kind = "noOrganization" -> PBIInfo(<< " " >>, << "p" >>, n, UrlOne)
    [] kind = "zeroId" -> PBIInfo(OrgAcme, << "p" >>, 0, UrlOne)
    [] OTHER -> PBIInfo(OrgAcme, << "p", "/", "q" >>, n, UrlOne)

BatchInputs ==
  UNION { { [ n \in 1..len |-> InfoOf(kinds[n], n) ] :
              kinds \in [ 1..len -> InfoKinds ] } : len \in 0..MaxBatch }

BatchResponses ==
  { Response(200, "workItem"), Response(200, "message"), Response(404, "message") }

InitBatch ==
  /\ Installed
  /\ call = [ p \in Procs |-> Idle ]
  /\ started = 0
  /\ cleared = FALSE
  /\ trail = NoTrail
  /\ budget = 0
  /\ parser = NoParser
  /\ widget = NoWidget
  /\ \E inputs \in BatchInputs :
       batch = [ NoBatch EXCEPT !.pc = "start", !.inputs = inputs,
                                !.rejected = [ n \in 1..Len(inputs) |-> Undefined ],
                                !.outcome = [ n \in 1..Len(inputs) |-> Undefined ] ]

NextBatch ==
  \/ ValidateMultiplePBIs_Start
  \/ \E k \in 1..BatchSize :
       \/ \E response \in BatchResponses : Batch_FetchResolves(k, response)
       \/ Batch_FetchRejects(k)
       \/ Batch_TimerFires(k)
  \/ \E n \in 1..MaxBatch : Batch_LateAnswer(n)
  \/ Batch_GroupDone

SpecBatch == InitBatch /\ [][NextBatch]_vars

(***************************************************************************)
(* AzureDevOpsURLParser                                                    *)
(***************************************************************************)

MaxParses == 2

\* the printable ASCII characters from code 32 to code 95
AsciiLow ==
  << " ", "!", "\"", "#", "$", "%", "&", "'", "(", ")", "*", "+", ",",
     "-", ".", "/", "0", "1", "2", "3", "4", "5", "6", "7", "8", "9",
     ":", ";", "<", "=", ">", "?", "@", "A", "B", "C", "D", "E", "F",
     "G", "H", "I", "J", "K", "L", "M", "N", "O", "P", "Q", "R", "S",
     "T", "U", "V", "W", "X", "Y", "Z", "[", "\\", "]", "^", "_" >>

\* the printable ASCII characters from code 97 to code 126
AsciiHigh ==
  << "a", "b", "c", "d", "e", "f", "g", "h", "i", "j", "k", "l", "m",
     "n", "o", "p", "q", "r", "s", "t", "u", "v", "w", "x", "y", "z",
     "{", "|", "}", "~" >>

\* String.fromCharCode for the codes of the two tables
FromCharCode(code) ==
  IF code < 96 THEN AsciiLow[code - 31] ELSE AsciiHigh[code - 96]

HexDigits == << "0", "1", "2", "3", "4", "5", "6", "7", "8", "9",
                "a", "b", "c", "d", "e", "f" >>

DecimalDigits == { HexDigits[i] : i \in 1..10 }

\* String.prototype.toLowerCase, one character
LowerChar(c) ==
  IF \E i \in 1..26 : B64Alphabet[i] = c
  THEN B64Alphabet[(CHOOSE i \in 1..26 : B64Alphabet[i] = c) + 26]
  ELSE c

ToLowerCase(s) == [ i \in 1..Len(s) |-> LowerChar(s[i]) ]

IsHex(c) == \E i \in 1..16 : HexDigits[i] = LowerChar(c)

HexValue(c) == (CHOOSE i \in 1..16 : HexDigits[i] = LowerChar(c)) - 1

\* the value of a run of decimal digits
RECURSIVE DigitsValue(_)
DigitsValue(s) ==
  IF s = << >> THEN 0
  ELSE 10 * DigitsValue(SubSeq(s, 1, Len(s) - 1)) + HexValue(s[Len(s)])

\* the longest run of decimal digits s starts with
RECURSIVE LeadingDigits(_)
LeadingDigits(s) ==
  IF s = << >> \/ Head(s) \notin DecimalDigits THEN << >>
  ELSE << Head(s) >> \o LeadingDigits(Tail(s))

StartsWith(s, prefix) ==
  Len(s) >= Len(prefix) /\ SubSeq(s, 1, Len(prefix)) = prefix

\* String.prototype.indexOf, counted from 1; 0 when sub does not occur
IndexOf(s, sub) ==
  IF Includes(s, sub)
  THEN CHOOSE i \in 1..Len(s) :
         /\ StartsWith(SubSeq(s, i, Len(s)), sub)
         /\ \A j \in 1..(i - 1) : ~StartsWith(SubSeq(s, j, Len(s)), sub)
  ELSE 0

NaN == [ t |-> "NaN" ]
Num(n) == [ t |-> "number", n |-> n ]

\* parseInt(s, 10): blanks, a sign, then the leading digits
ParseInt(s) ==
  LET body   == Trim(s)
      signed == body # << >> /\ Head(body) \in { "+", "-" }
      digits == LeadingDigits(IF signed THEN Tail(body) ELSE body)
  IN  IF digits = << >> THEN NaN
      ELSE IF signed /\ Head(body) = "-" THEN Num(0 - DigitsValue(digits))
      ELSE Num(DigitsValue(digits))

\* decodeURIComponent: the text, or a URIError for a '%' that is not followed
\* by two hexadecimal digits; escapes are decoded for the codes of the tables
RECURSIVE DecodeURIComponent(_)
DecodeURIComponent(s) ==
  IF s = << >> THEN Returned(s)
  ELSE IF Head(s) # "%"
       THEN LET rest == DecodeURIComponent(Tail(s))
            IN  IF rest.kind = "throw" THEN rest
                ELSE Returned(<< Head(s) >> \o rest.value)
       ELSE IF Len(s) < 3 \/ ~IsHex(s[2]) \/ ~IsHex(s[3])
            THEN Thrown(Error("URI malformed"))
            ELSE LET code == 16 * HexValue(s[2]) + HexValue(s[3])
                     rest == DecodeURIComponent(SubSeq(s, 4, Len(s)))
                 IN  IF rest.kind = "throw" THEN rest
                     ELSE Returned(<< FromCharCode(code) >> \o rest.value)

\* the literals of the parser
HttpScheme == << "h", "t", "t", "p", ":", "/", "/" >>
HttpsScheme == << "h", "t", "t", "p", "s", ":", "/", "/" >>
DevAzureCom == << "d", "e", "v", ".", "a", "z", "u", "r", "e", ".", "c", "o", "m" >>
VisualStudioCom == << "v", "i", "s", "u", "a", "l", "s", "t", "u", "d", "i", "o", ".", "c", "o", "m" >>
DotVisualStudioCom == << ".", "v", "i", "s", "u", "a", "l", "s", "t", "u", "d", "i", "o", ".", "c", "o", "m" >>
EditPath == << "/", "e", "d", "i", "t", "/" >>
WorkitemsPath == << "/", "w", "o", "r", "k", "i", "t", "e", "m", "s", "/" >>
WorkitemKey == << "w", "o", "r", "k", "i", "t", "e", "m" >>
WorkItemKey == << "w", "o", "r", "k", "I", "t", "e", "m" >>

\* trimmedUrl.match(/^(https?):\/\/(.*)/i): what follows the scheme, or no match
ProtocolMatch(trimmedUrl) ==
  IF StartsWith(ToLowerCase(trimmedUrl), HttpsScheme)
  THEN Returned(SubSeq(trimmedUrl, Len(HttpsScheme) + 1, Len(trimmedUrl)))
  ELSE IF StartsWith(ToLowerCase(trimmedUrl), HttpScheme)
       THEN Returned(SubSeq(trimmedUrl, Len(HttpScheme) + 1, Len(trimmedUrl)))
       ELSE Null

\* rest.match(/^([^/]+)(.*)/): the characters before the first '/', at least one
HostnameOf(rest) ==
  IF IndexOf(rest, << "/" >>) = 0 THEN rest
  ELSE SubSeq(rest, 1, IndexOf(rest, << "/" >>) - 1)

\* split(sep).filter(part => part.length > 0)
NonEmptyParts(s, sep) ==
  LET parts == Split(s, sep)
      keep  == { k \in 1..Len(parts) : parts[k] # << >> }
  IN  [ n \in 1..Cardinality(keep) |->
          parts[CHOOSE k \in keep : Cardinality({ j \in keep : j < k }) = n - 1] ]

\* what one 'key=value' piece adds to the map: an entry, nothing, or a URIError
QueryPair(pair) ==
  LET parts == Split(pair, "=")
  IN  IF Len(parts) = 2
      THEN IF DecodeURIComponent(parts[1]).kind = "throw"
           THEN DecodeURIComponent(parts[1])
           ELSE IF DecodeURIComponent(parts[2]).kind = "throw"
                THEN DecodeURIComponent(parts[2])
                ELSE Returned(<< [ key |-> DecodeURIComponent(parts[1]).value,
                                   value |-> DecodeURIComponent(parts[2]).value ] >>)
      ELSE IF Len(parts) = 1 /\ parts[1] # << >>
           THEN IF DecodeURIComponent(parts[1]).kind = "throw"
                THEN DecodeURIComponent(parts[1])
                ELSE Returned(<< [ key |-> DecodeURIComponent(parts[1]).value,
                                   value |-> << >> ] >>)
           ELSE Returned(<< >>)

\* parseQueryParams: the entries in the order they were set, or the first
\* URIError of a piece
parseQueryParams(queryString) ==
  IF Len(queryString) <= 1 THEN Returned(<< >>)
  ELSE LET query  == IF Head(queryString) = "?" THEN Tail(queryString)
                     ELSE queryString
           pairs  == Split(query, "&")
           failed == { k \in 1..Len(pairs) : QueryPair(pairs[k]).kind = "throw" }
           Join[k \in 0..Len(pairs)] ==
             IF k = 0 THEN << >> ELSE Join[k - 1] \o QueryPair(pairs[k]).value
       IN  IF failed # {}
           THEN QueryPair(pairs[CHOOSE k \in failed : \A j \in failed : k <= j])
           ELSE Returned(Join[Len(pairs)])

\* Map.prototype.get: the value set last for the key, or undefined
MapGet(params, key) ==
  LET at == { k \in 1..Len(params) : params[k].key = key }
  IN  IF at = {} THEN Undefined
      ELSE Str(params[CHOOSE k \in at : \A j \in at : j <= k].value)

\* pathname.match(/<prefix>(\d+)/): the digits of the first match, or none
DigitsAfter(pathname, prefix) ==
  LET at == { i \in 1..Len(pathname) :
                /\ StartsWith(SubSeq(pathname, i, Len(pathname)), prefix)
                /\ i + Len(prefix) <= Len(pathname)
                /\ pathname[i + Len(prefix)] \in DecimalDigits }
  IN  IF at = {} THEN << >>
      ELSE LeadingDigits(SubSeq(pathname,
                                (CHOOSE i \in at : \A j \in at : i <= j) + Len(prefix),
                                Len(pathname)))

\* a truthy query value that parses to a number
QueryId(params, key) ==
  IF MapGet(params, key) = Undefined \/ MapGet(params, key) = Str(<< >>) THEN NaN
  ELSE ParseInt(MapGet(params, key).s)

\* extractWorkItemId: the four patterns in order
extractWorkItemId(pathname, params) ==
  IF DigitsAfter(pathname, EditPath) # << >>
  THEN ParseInt(DigitsAfter(pathname, EditPath))
  ELSE IF QueryId(params, WorkitemKey) # NaN THEN QueryId(params, WorkitemKey)
  ELSE IF QueryId(params, WorkItemKey) # NaN THEN QueryId(params, WorkItemKey)
  ELSE IF DigitsAfter(pathname, WorkitemsPath) # << >>
  THEN ParseInt(DigitsAfter(pathname, WorkitemsPath))
  ELSE Null

\* isAzureDevOpsURL
isAzureDevOpsURL(hostname) ==
  Includes(hostname, DevAzureCom) \/ Includes(hostname, VisualStudioCom)

Rejected(error) == [ isValid |-> FALSE, error |-> error ]

Accepted(organization, project, workItemId, url) ==
  [ isValid |-> TRUE, data |-> PBIInfo(organization, project, workItemId, url) ]

\* parseURL from the extraction of the id on, for the mutation that leaves
\* out the test of the id
WithWorkItemId_Untested(organization, project, pathname, params, trimmedUrl) ==
  LET workItemId == extractWorkItemId(pathname, params)
  IN  Returned(Accepted(organization, project,
                        IF workItemId = Null THEN 0 ELSE workItemId.n,
                        trimmedUrl))

\* parseURL from the extraction of the id on
WithWorkItemId(organization, project, pathname, params, trimmedUrl) ==
  LET workItemId == extractWorkItemId(pathname, params)
  IN  IF workItemId = Null \/ workItemId = Num(0)
      THEN Returned(Rejected("Could not find work item ID in URL"))
      ELSE Returned(Accepted(organization, project, workItemId.n, trimmedUrl))

\* parseURL for a host under .visualstudio.com
VisualStudioForm(hostnameLower, pathname, params, trimmedUrl) ==
  LET org       == SubSeq(hostnameLower, 1,
                          IndexOf(hostnameLower, DotVisualStudioCom) - 1)
      pathParts == NonEmptyParts(pathname, "/")
  IN  IF org = << >>
      THEN Returned(Rejected(
             "Invalid visualstudio.com URL: could not determine organization."))
      ELSE IF DecodeURIComponent(org).kind = "throw" THEN DecodeURIComponent(org)
      ELSE IF Len(pathParts) < 1
      THEN Returned(Rejected("Invalid visualstudio.com URL: missing project."))
      ELSE IF DecodeURIComponent(pathParts[1]).kind = "throw"
      THEN DecodeURIComponent(pathParts[1])
      ELSE WithWorkItemId(DecodeURIComponent(org).value,
                          DecodeURIComponent(pathParts[1]).value,
                          pathname, params, trimmedUrl)

\* parseURL for a host holding dev.azure.com
DevAzureForm(pathname, params, trimmedUrl) ==
  LET pathParts == NonEmptyParts(pathname, "/")
  IN  IF Len(pathParts) < 2
      THEN Returned(Rejected(
             "Invalid dev.azure.com URL: missing organization or project."))
      ELSE IF DecodeURIComponent(pathParts[1]).kind = "throw"
      THEN DecodeURIComponent(pathParts[1])
      ELSE IF DecodeURIComponent(pathParts[2]).kind = "throw"
      THEN DecodeURIComponent(pathParts[2])
      ELSE WithWorkItemId(DecodeURIComponent(pathParts[1]).value,
                          DecodeURIComponent(pathParts[2]).value,
                          pathname, params, trimmedUrl)

\* the try block of parseURL: what it returns, or what it throws
ParseTry(url) ==
  LET trimmedUrl == Trim(url)
      rest == ProtocolMatch(trimmedUrl)
  IN  IF rest = Null
      THEN Returned(Rejected("Malformed URL: Missing protocol."))
      ELSE IF HostnameOf(rest.value) = << >>
      THEN Returned(Rejected("Malformed URL: Missing hostname."))
      ELSE
        LET hostname     == ToLowerCase(HostnameOf(rest.value))
            pathAndQuery == SubSeq(rest.value, Len(hostname) + 1, Len(rest.value))
            queryStart   == IndexOf(pathAndQuery, << "?" >>)
            pathname     == IF queryStart # 0
                            THEN SubSeq(pathAndQuery, 1, queryStart - 1)
                            ELSE pathAndQuery
            search       == IF queryStart # 0
                            THEN SubSeq(pathAndQuery, queryStart, Len(pathAndQuery))
                            ELSE << >>
            searchParams == parseQueryParams(search)
        IN  IF searchParams.kind = "throw" THEN searchParams
            ELSE IF ~isAzureDevOpsURL(hostname)
            THEN Returned(Rejected(
                   "URL must be from dev.azure.com or visualstudio.com"))
            ELSE IF Includes(hostname, DotVisualStudioCom)
            THEN VisualStudioForm(hostname, pathname, searchParams.value, trimmedUrl)
            ELSE IF Includes(hostname, DevAzureCom)
            THEN DevAzureForm(pathname, searchParams.value, trimmedUrl)
            ELSE Returned(Rejected("Unsupported Azure DevOps URL format."))

\* parseURL: the catch turns whatever was thrown into a rejection whose text
\* starts with 'Malformed URL format: '
parseURL(url) ==
  LET tried == ParseTry(url)
  IN  IF tried.kind = "throw" THEN Returned(Rejected("Malformed URL format: "))
      ELSE tried

WorkitemsEdit ==
  << "/", "_", "w", "o", "r", "k", "i", "t", "e", "m", "s", "/", "e", "d",
     "i", "t", "/" >>
BoardWorkitem ==
  << "/", "_", "b", "o", "a", "r", "d", "s", "/", "b", "o", "a", "r", "d",
     "/", "t", "/", "t", "e", "a", "m", "/", "S", "t", "o", "r", "i", "e",
     "s", "/", "?", "w", "o", "r", "k", "i", "t", "e", "m", "=" >>
BoardWorkItem ==
  << "/", "_", "b", "o", "a", "r", "d", "s", "/", "b", "o", "a", "r", "d",
     "/", "t", "/", "t", "e", "a", "m", "/", "S", "t", "o", "r", "i", "e",
     "s", "/", "?", "w", "o", "r", "k", "I", "t", "e", "m", "=" >>
ApiWorkitems ==
  << "/", "_", "a", "p", "i", "s", "/", "w", "i", "t", "/", "w", "o", "r",
     "k", "i", "t", "e", "m", "s", "/" >>
OrgMyOrg == << "M", "y", "-", "O", "r", "g" >>
OrgDotted == << "a", ".", "b" >>
ProjectSpaced == << "M", "y", " ", "P", "r", "o", "j" >>
ProjectWeb == << "w", "e", "b", "_", "1" >>
GithubCom == << "g", "i", "t", "h", "u", "b", ".", "c", "o", "m" >>
GoogleCom == << "g", "o", "o", "g", "l", "e", ".", "c", "o", "m" >>
IssuePath ==
  << "/", "u", "s", "e", "r", "/", "r", "e", "p", "o", "/", "i", "s", "s",
     "u", "e", "s", "/", "1", "2", "3" >>
DomainInPath ==
  << "/", "d", "e", "v", ".", "a", "z", "u", "r", "e", ".", "c", "o", "m",
     "/", "o", "/", "p", "/", "_", "w", "o", "r", "k", "i", "t", "e", "m",
     "s", "/", "e", "d", "i", "t", "/", "5" >>
UrlBoards ==
  << "h", "t", "t", "p", "s", ":", "/", "/", "d", "e", "v", ".", "a", "z",
     "u", "r", "e", ".", "c", "o", "m", "/", "a", "c", "m", "e", "/", "p",
     "/", "_", "b", "o", "a", "r", "d", "s" >>
UrlBoardsAlias ==
  << "h", "t", "t", "p", "s", ":", "/", "/", "a", "c", "m", "e", ".", "v",
     "i", "s", "u", "a", "l", "s", "t", "u", "d", "i", "o", ".", "c", "o",
     "m", "/", "p", "/", "_", "b", "o", "a", "r", "d", "s" >>
UrlNoScheme == << "n", "o", "t", " ", "a", " ", "u", "r", "l" >>
UrlFtp ==
  << "f", "t", "p", ":", "/", "/", "d", "e", "v", ".", "a", "z", "u", "r",
     "e", ".", "c", "o", "m", "/", "a", "c", "m", "e", "/", "p", "/", "_",
     "w", "o", "r", "k", "i", "t", "e", "m", "s", "/", "e", "d", "i", "t",
     "/", "1" >>
UrlNoHost == << "h", "t", "t", "p", "s", ":", "/", "/" >>
UrlNoProject ==
  << "h", "t", "t", "p", "s", ":", "/", "/", "d", "e", "v", ".", "a", "z",
     "u", "r", "e", ".", "c", "o", "m", "/", "a", "c", "m", "e" >>
UrlAliasNoProject ==
  << "h", "t", "t", "p", "s", ":", "/", "/", "a", "c", "m", "e", ".", "v",
     "i", "s", "u", "a", "l", "s", "t", "u", "d", "i", "o", ".", "c", "o",
     "m" >>
UrlAliasNoOrg ==
  << "h", "t", "t", "p", "s", ":", "/", "/", ".", "v", "i", "s", "u", "a",
     "l", "s", "t", "u", "d", "i", "o", ".", "c", "o", "m", "/", "p", "/",
     "_", "w", "o", "r", "k", "i", "t", "e", "m", "s", "/", "e", "d", "i",
     "t", "/", "1" >>
UrlBareAlias ==
  << "h", "t", "t", "p", "s", ":", "/", "/", "v", "i", "s", "u", "a", "l",
     "s", "t", "u", "d", "i", "o", ".", "c", "o", "m", "/", "p", "/", "_",
     "w", "o", "r", "k", "i", "t", "e", "m", "s", "/", "e", "d", "i", "t",
     "/", "1" >>
UrlBadEscape ==
  << "h", "t", "t", "p", "s", ":", "/", "/", "d", "e", "v", ".", "a", "z",
     "u", "r", "e", ".", "c", "o", "m", "/", "a", "%", "z", "z", "/", "p",
     "/", "_", "w", "o", "r", "k", "i", "t", "e", "m", "s", "/", "e", "d",
     "i", "t", "/", "1" >>
UrlBadQueryEscape ==
  << "h", "t", "t", "p", "s", ":", "/", "/", "g", "i", "t", "h", "u", "b",
     ".", "c", "o", "m", "/", "a", "?", "x", "=", "%" >>
UrlZeroId ==
  << "h", "t", "t", "p", "s", ":", "/", "/", "d", "e", "v", ".", "a", "z",
     "u", "r", "e", ".", "c", "o", "m", "/", "a", "c", "m", "e", "/", "p",
     "/", "_", "w", "o", "r", "k", "i", "t", "e", "m", "s", "/", "e", "d",
     "i", "t", "/", "0" >>
UrlQueryNotANumber ==
  << "h", "t", "t", "p", "s", ":", "/", "/", "d", "e", "v", ".", "a", "z",
     "u", "r", "e", ".", "c", "o", "m", "/", "a", "c", "m", "e", "/", "p",
     "/", "_", "b", "o", "a", "r", "d", "s", "?", "w", "o", "r", "k", "i",
     "t", "e", "m", "=", "a", "b", "c" >>
UrlEscaped ==
  << " ", "H", "T", "T", "P", "S", ":", "/", "/", "D", "e", "v", ".", "A",
     "z", "u", "r", "e", ".", "c", "o", "m", "/", "a", "c", "m", "e", "/",
     "m", "y", "%", "2", "0", "p", "/", "_", "q", "u", "e", "r", "i", "e",
     "s", "?", "a", "=", "b", "&", "w", "o", "r", "k", "I", "t", "e", "m",
     "=", "7", " " >>
UrlNegativeId ==
  << "h", "t", "t", "p", "s", ":", "/", "/", "d", "e", "v", ".", "a", "z",
     "u", "r", "e", ".", "c", "o", "m", "/", "a", "c", "m", "e", "/", "p",
     "/", "_", "b", "o", "a", "r", "d", "s", "?", "w", "o", "r", "k", "i",
     "t", "e", "m", "=", "-", "5" >>
UrlOddName ==
  << "h", "t", "t", "p", "s", ":", "/", "/", "d", "e", "v", ".", "a", "z",
     "u", "r", "e", ".", "c", "o", "m", "/", "m", "y", "@", "o", "r", "g",
     "/", "p", "/", "_", "w", "o", "r", "k", "i", "t", "e", "m", "s", "/",
     "e", "d", "i", "t", "/", "1" >>
UrlZeroThenQuery ==
  << "h", "t", "t", "p", "s", ":", "/", "/", "d", "e", "v", ".", "a", "z",
     "u", "r", "e", ".", "c", "o", "m", "/", "a", "c", "m", "e", "/", "p",
     "/", "_", "w", "o", "r", "k", "i", "t", "e", "m", "s", "/", "e", "d",
     "i", "t", "/", "0", "?", "w", "o", "r", "k", "i", "t", "e", "m", "=",
     "5" >>
UrlZeroThenSecondKey ==
  << "h", "t", "t", "p", "s", ":", "/", "/", "d", "e", "v", ".", "a", "z",
     "u", "r", "e", ".", "c", "o", "m", "/", "a", "c", "m", "e", "/", "p",
     "/", "_", "b", "o", "a", "r", "d", "s", "?", "w", "o", "r", "k", "i",
     "t", "e", "m", "=", "0", "&", "w", "o", "r", "k", "I", "t", "e", "m",
     "=", "9" >>
UrlEditThenQuery ==
  << "h", "t", "t", "p", "s", ":", "/", "/", "d", "e", "v", ".", "a", "z",
     "u", "r", "e", ".", "c", "o", "m", "/", "a", "c", "m", "e", "/", "p",
     "/", "_", "w", "o", "r", "k", "i", "t", "e", "m", "s", "/", "e", "d",
     "i", "t", "/", "3", "?", "w", "o", "r", "k", "i", "t", "e", "m", "=",
     "5", "&", "w", "o", "r", "k", "I", "t", "e", "m", "=", "6" >>
UrlTextThenSecondKey ==
  << "h", "t", "t", "p", "s", ":", "/", "/", "d", "e", "v", ".", "a", "z",
     "u", "r", "e", ".", "c", "o", "m", "/", "a", "c", "m", "e", "/", "p",
     "/", "_", "a", "p", "i", "s", "/", "w", "i", "t", "/", "w", "o", "r",
     "k", "i", "t", "e", "m", "s", "/", "8", "?", "w", "o", "r", "k", "i",
     "t", "e", "m", "=", "a", "b", "c", "&", "w", "o", "r", "k", "I", "t",
     "e", "m", "=", "9" >>

\* the decimal digits of a positive number, as `${id}` writes them
RECURSIVE DigitsOf(_)
DigitsOf(n) ==
  IF n < 10 THEN << HexDigits[n + 1] >>
  ELSE DigitsOf(n \div 10) \o << HexDigits[(n % 10) + 1] >>

\* the organizations, projects and ids the URLs are built from
ParserOrgs == { OrgAcme, OrgMyOrg, OrgDotted }
ParserProjects == { ProjectSpaced, ProjectWeb }
ParserIds == { 7, 12345 }

Shapes == { "edit", "workitem", "workItem", "api", "alias" }

\* the URL of one accepted shape for an organization, a project and an id
ShapeUrl(shape, org, project, id) ==
  CASE shape = "edit" ->
         HttpsScheme \o DevAzureCom \o << "/" >> \o org \o << "/" >> \o project
           \o WorkitemsEdit \o DigitsOf(id)
    [] shape = "workitem" ->
         HttpsScheme \o DevAzureCom \o << "/" >> \o org \o << "/" >> \o project
           \o BoardWorkitem \o DigitsOf(id)
    [] shape = "workItem" ->
         HttpsScheme \o DevAzureCom \o << "/" >> \o org \o << "/" >> \o project
           \o BoardWorkItem \o DigitsOf(id)
    [] shape = "api" ->
         HttpsScheme \o DevAzureCom \o << "/" >> \o org \o << "/" >> \o project
           \o ApiWorkitems \o DigitsOf(id)
    [] OTHER ->
         HttpsScheme \o org \o DotVisualStudioCom \o << "/" >> \o project
           \o WorkitemsEdit \o DigitsOf(id)

\* URLs of hosts that hold neither dev.azure.com nor visualstudio.com
ForeignHosts == { GithubCom, GoogleCom }

ForeignUrls ==
  { HttpsScheme \o host \o path :
      host \in ForeignHosts, path \in { << >>, IssuePath, DomainInPath } }

\* URLs of the service without a work-item id
NoIdUrls == { UrlBoards, UrlBoardsAlias, UrlNoProject, UrlAliasNoProject }

\* URLs that hold several candidates for the id, or a negative one, and a
\* URL whose organization holds a character outside the name pattern
CandidateUrls ==
  { UrlNegativeId, UrlOddName, UrlZeroThenQuery, UrlZeroThenSecondKey,
    UrlEditThenQuery, UrlTextThenSecondKey }

\* other inputs: not a URL, a wrong scheme, no host, no organization, a broken
\* escape, an id of 0, a query value that is not a number, and a URL with
\* blanks around it, capitals in scheme and host and an escaped project
OtherUrls ==
  { << >>, UrlNoScheme, UrlFtp, UrlNoHost, UrlAliasNoOrg, UrlBareAlias,
    UrlBadEscape, UrlBadQueryEscape, UrlZeroId, UrlQueryNotANumber, UrlEscaped }
    \cup CandidateUrls

ParserStep(url) ==
  /\ Cardinality(parser.parsed) < MaxParses
  /\ \A e \in parser.parsed : e.url # url
  /\ parser' = [ parser EXCEPT
                   !.parsed = @ \cup { [ url |-> url, outcome |-> parseURL(url) ] } ]
  /\ UNCHANGED << configSlot, keySlot, draws, call, started, budget, cleared,
                  trail, batch, widget >>

\* parseURL on the URL of one accepted shape for the chosen work item
ParseShape(shape) ==
  ParserStep(ShapeUrl(shape, parser.organization, parser.project,
                      parser.workItemId))

\* parseURL on any other input
ParseOther(url) == ParserStep(url)

InitParser ==
  /\ Installed
  /\ call = [ p \in Procs |-> Idle ]
  /\ batch = NoBatch
  /\ widget = NoWidget
  /\ started = 0
  /\ cleared = FALSE
  /\ trail = NoTrail
  /\ budget = 0
  /\ \E org \in ParserOrgs, project \in ParserProjects, id \in ParserIds :
       parser = [ NoParser EXCEPT !.organization = org, !.project = project,
                                  !.workItemId = id ]

NextParser ==
  \/ \E shape \in Shapes : ParseShape(shape)
  \/ \E url \in ForeignUrls \cup NoIdUrls \cup OtherUrls : ParseOther(url)

SpecParser == InitParser /\ [][NextParser]_vars

(***************************************************************************)
(* The widget: handleResize, handleRefresh and handleUpdatePBI             *)
(***************************************************************************)

MaxWidgetCalls == 3

MinWidth == 280
MaxWidth == 800
ResizeStep == 40

Max(a, b) == IF a > b THEN a ELSE b

\* the clamp of handleResize, for the mutation that leaves the width as it is
Clamp_Unbounded(width) == width

\* Math.max(280, Math.min(800, width))
Clamp(width) == Max(MinWidth, Min(MaxWidth, width))

\* the record a successful validation brings, told from the one shown before
\* by its revision
Fetched(rev) == [ t |-> "pbi", from |-> "workItem", rev |-> rev ]

\* what retrieveConfig resolves with: null, or a config with its token
ConfigOutcomes == { Null, Str(TokenB) }

\* what validatePBI resolves with: a record, or one of the client's errors
ValidationOutcomes ==
  { Valid(Fetched(1)), Valid(Fetched(2)),
    Invalid(createAPIError("NETWORK_ERROR", "Request timed out after 10 seconds",
                           TRUE)) }

\* the error object handleRefresh's catch stores
RefreshError(message) ==
  [ isError |-> FALSE, hasCode |-> TRUE, code |-> "REFRESH_ERROR",
    message |-> message, userMessage |-> message, retryable |-> TRUE ]

\* what the widget renders: the loading text, the error panel with its retry
\* button, the empty panel, or the card with its resize and Sync buttons
Rendered(state) ==
  IF state.isLoading THEN "loading"
  ELSE IF state.error # Null THEN "error"
  ELSE IF state.currentData = Null THEN "empty"
  ELSE "card"

\* setWidgetState(state), and handler h going on as record r
WidgetStep(state, h, r, isStart) ==
  /\ widget' = [ widget EXCEPT !.state = state, !.run[h] = r,
                               !.calls = IF isStart THEN @ + 1 ELSE @ ]
  /\ UNCHANGED << configSlot, keySlot, draws, call, started, budget, cleared,
                  trail, batch, parser >>

CanHandle(h) ==
  /\ widget.run[h].pc = "done"
  /\ widget.calls < MaxWidgetCalls

\* handleResize(delta), from the '-' and '+' buttons of the card: the state
\* of the render the button belongs to, with the clamped width
HandleResize(delta) ==
  /\ Rendered(widget.state) = "card"
  /\ widget' = [ widget EXCEPT
                   !.state = [ widget.state EXCEPT
                                 !.customWidth = Clamp(widget.state.customWidth + delta) ] ]
  /\ UNCHANGED << configSlot, keySlot, draws, call, started, budget, cleared,
                  trail, batch, parser >>

\* handleRefresh's catch: setWidgetState({...widgetState, isLoading: false, error})
RefreshFailed(seen, message) ==
  [ seen EXCEPT !.isLoading = FALSE, !.error = RefreshError(message) ]

\* handleRefresh's success: setWidgetState({...widgetState, currentData,
\* lastRefresh, isLoading: false, visibleFields}); widgetState is the state of
\* the render the handler was started from
RefreshSucceeded(seen, data) ==
  [ seen EXCEPT !.currentData = data, !.isLoading = FALSE ]

\* handleRefresh up to its first await, from the retry button of the error
\* panel or the Sync button of the card
HandleRefresh_Start(h) ==
  /\ CanHandle(h)
  /\ Rendered(widget.state) \in { "error", "card" }
  /\ ~widget.state.isLoading
  /\ WidgetStep([ widget.state EXCEPT !.isLoading = TRUE, !.error = Null ], h,
                [ op |-> "handleRefresh", pc |-> "config", seen |-> widget.state ],
                TRUE)

\* retrieveConfig resolves
HandleRefresh_Config(h, config) ==
  /\ widget.run[h].op = "handleRefresh"
  /\ widget.run[h].pc = "config"
  /\ IF config = Null \/ config = Str(NoToken)
     THEN WidgetStep(RefreshFailed(widget.run[h].seen,
                                   "PAT not found. Please configure the plugin."),
                     h, [ widget.run[h] EXCEPT !.pc = "done" ], FALSE)
     ELSE WidgetStep(widget.state, h, [ widget.run[h] EXCEPT !.pc = "validate" ],
                     FALSE)

\* validatePBI resolves
HandleRefresh_Validated(h, validation) ==
  /\ widget.run[h].op = "handleRefresh"
  /\ widget.run[h].pc = "validate"
  /\ WidgetStep(IF validation.isValid
                THEN RefreshSucceeded(widget.run[h].seen, validation.data)
                ELSE RefreshFailed(widget.run[h].seen, validation.error.userMessage),
                h, [ widget.run[h] EXCEPT !.pc = "done" ], FALSE)

\* handleUpdatePBI up to its first await, called through
\* activeInstanceUpdateHandler: a URL that does not parse makes it throw
HandleUpdatePBI_Start(h, url) ==
  /\ CanHandle(h)
  /\ WidgetStep(widget.state, h,
                [ op |-> "handleUpdatePBI",
                  pc |-> IF parseURL(url).value.isValid THEN "config" ELSE "done",
                  seen |-> [ widget.state EXCEPT
                               !.pbiInfo = IF parseURL(url).value.isValid
                                           THEN parseURL(url).value.data
                                           ELSE @ ] ],
                TRUE)

\* retrieveConfig resolves: without a config the handler throws, with one it
\* raises the loading flag
HandleUpdatePBI_Config(h, config) ==
  /\ widget.run[h].op = "handleUpdatePBI"
  /\ widget.run[h].pc = "config"
  /\ IF config = Null
     THEN WidgetStep(widget.state, h, [ widget.run[h] EXCEPT !.pc = "done" ], FALSE)
     ELSE WidgetStep([ widget.run[h].seen EXCEPT
                         !.isLoading = TRUE,
                         !.pbiInfo = widget.run[h].seen.pbiInfo ],
                     h, [ widget.run[h] EXCEPT !.pc = "validate" ], FALSE)

\* validatePBI resolves: a failed validation makes the handler throw, with
\* nothing written; a record is stored with the loading flag down
HandleUpdatePBI_Validated(h, validation) ==
  /\ widget.run[h].op = "handleUpdatePBI"
  /\ widget.run[h].pc = "validate"
  /\ IF ~validation.isValid
     THEN WidgetStep(widget.state, h, [ widget.run[h] EXCEPT !.pc = "done" ], FALSE)
     ELSE WidgetStep([ widget.run[h].seen EXCEPT
                         !.currentData = validation.data,
                         !.isLoading = FALSE, !.error = Null ],
                     h, [ widget.run[h] EXCEPT !.pc = "done" ], FALSE)

\* the URLs handed to handleUpdatePBI
WidgetUrls == { ShapeUrl("edit", OrgAcme, ProjectWeb, 7), UrlNoScheme }

InitWidget ==
  /\ Installed
  /\ call = [ p \in Procs |-> Idle ]
  /\ batch = NoBatch
  /\ parser = NoParser
  /\ started = 0
  /\ cleared = FALSE
  /\ trail = NoTrail
  /\ budget = 0
  /\ widget = NoWidget

\* the steps that finish a handler already started
WidgetContinues ==
  \E h \in WidgetProcs :
    \/ \E config \in ConfigOutcomes :
         HandleRefresh_Config(h, config) \/ HandleUpdatePBI_Config(h, config)
    \/ \E validation \in ValidationOutcomes :
         HandleRefresh_Validated(h, validation)
           \/ HandleUpdatePBI_Validated(h, validation)

NextWidget ==
  \/ \E delta \in { ResizeStep, 0 - ResizeStep } : HandleResize(delta)
  \/ \E h \in WidgetProcs :
       \/ HandleRefresh_Start(h)
       \/ \E url \in WidgetUrls : HandleUpdatePBI_Start(h, url)
  \/ WidgetContinues

SpecWidget == InitWidget /\ [][NextWidget]_vars

\* every handler that was started goes on until it is done
SpecWidgetLive == SpecWidget /\ WF_vars(WidgetContinues)

(***************************************************************************)
(* The persisted characters                                                *)
(***************************************************************************)

Quoted(s) == << "\"" >> \o s \o << "\"" >>

\* one "name":value member of the JSON text; undefined members are left out
Member(name, v) ==
  IF v.t = "undefined" THEN << >>
  ELSE << ",", "\"" >> \o name \o << "\"", ":" >> \o
       (IF v.t = "string" THEN Quoted(v.s)
        ELSE << "{", "\"", "t", "a", "g", "s", "\"", ":", "t", "r", "u", "e", "}" >>)

\* the characters persisted in a storage slot
SlotChars(v) ==
  IF v.t = "undefined" THEN << >>
  ELSE IF v.t = "string" THEN v.s
  ELSE IF ~v.parses THEN v.v.s
  ELSE IF v.v.t # "object" THEN << "n", "u", "l", "l" >>
  ELSE << "{" >>
       \o Tail(Member(<< "o", "r", "g", "a", "n", "i", "z", "a", "t", "i", "o", "n" >>,
                      v.v.organization)
               \o Member(<< "e", "n", "c", "r", "y", "p", "t", "e", "d", "P", "a", "t" >>,
                         v.v.encryptedPat)
               \o Member(<< "a", "c", "P", "a", "t", "t", "e", "r", "n" >>, v.v.acPattern)
               \o Member(<< "v", "i", "s", "i", "b", "l", "e", "F", "i", "e", "l", "d", "s" >>,
                         v.v.visibleFields)
               \o Member(<< "c", "r", "e", "a", "t", "e", "d", "A", "t" >>, v.v.createdAt)
               \o Member(<< "l", "a", "s", "t", "B", "a", "s", "e", "U", "r", "l" >>,
                         v.v.lastBaseUrl))
       \o << "}" >>

(***************************************************************************)
(* Properties of the config store                                          *)
(***************************************************************************)

\* the tokens handed to storeConfig
Tokens == { config.pat : config \in { c \in Configs : Len(c.pat) > 0 } }

\* exactly 52 characters of the Base64 alphabet
WellFormedToken(token) ==
  /\ Len(token) = 52
  /\ \A i \in 1..Len(token) : token[i] \in B64Chars

Done(p, op) == call[p].op = op /\ call[p].pc = "done"

\* what retrieveConfig returned matches what the storeConfig before it stored
ReturnsStored ==
  LET r == call[trail.q].result
  IN  /\ r.kind = "return"
      /\ r.value.t = "object"
      /\ r.value.organization = Str(trail.organization)
      /\ r.value.pat = Str(trail.pat)

C2_ClearCompleteness == cleared => configSlot = Undefined

\* C3: starting storeConfig with a non-empty token that is not well formed
\* rejects with 'Invalid PAT format.' and leaves both storage slots as
\* they were.
C3_InvalidPatRejected ==
  [][ \A p \in Procs :
        ( /\ started' = started + 1
          /\ call'[p] # call[p]
          /\ call'[p].op = "storeConfig"
          /\ Len(call'[p].config.pat) > 0
          /\ ~WellFormedToken(call'[p].config.pat) )
        => ( /\ call'[p].pc = "done"
             /\ call'[p].result = Thrown(Error("Invalid PAT format."))
             /\ configSlot' = configSlot
             /\ keySlot' = keySlot ) ]_vars

C3_Witness ==
  \E p \in Procs :
    /\ Done(p, "storeConfig")
    /\ ~WellFormedToken(call[p].config.pat)
    /\ call[p].result = Thrown(Error("Invalid PAT format."))

\* a blob with a non-empty encryptedPat
HasEncryptedPat(raw) ==
  /\ Truthy(raw)
  /\ raw.parses
  /\ raw.v.t = "object"
  /\ Truthy(raw.v.encryptedPat)

\* C4: storeConfig without a token writes a blob whose encryptedPat is that
\* of the blob it found, and only organization and preferences change (so
\* lastBaseUrl stays); if it found no blob with a non-empty encryptedPat it
\* fails with 'PAT is required.' and storage is unchanged.
C4_CarryForward ==
  [][ \A p \in Procs :
        ( call[p].op = "storeConfig" /\ call[p].pc = "carry" /\ call'[p].pc = "done" )
        => IF HasEncryptedPat(call[p].raw)
           THEN /\ call'[p].result = Returned(Undefined)
                /\ HasEncryptedPat(configSlot')
                /\ configSlot'.v.encryptedPat = call[p].raw.v.encryptedPat
                /\ configSlot'.v.lastBaseUrl = call[p].raw.v.lastBaseUrl
           ELSE /\ call'[p].result = Thrown(Error("PAT is required."))
                /\ configSlot' = configSlot
                /\ keySlot' = keySlot ]_vars

\* C9: no persisted value, config blob or key slot, contains a plaintext
\* token, and the encryptedPat of the blob is empty or a triple of three
\* ':'-separated parts.
C9_NoPlaintextPersisted ==
  /\ \A token \in Tokens :
       /\ ~Includes(SlotChars(configSlot), token)
       /\ ~Includes(SlotChars(keySlot), token)
  /\ HasEncryptedPat(configSlot) => HasThreeParts(configSlot.v.encryptedPat.s)

C9_Witness ==
  /\ HasEncryptedPat(configSlot)
  /\ \E p \in Procs : Done(p, "storeConfig") /\ call[p].result.kind = "return"

\* the token that decryptPAT yields for the blob a reader fetched, under
\* the key the reader was handed
DecryptedFor(c) ==
  IF ~(Truthy(c.raw) /\ c.raw.parses /\ c.raw.v.t = "object") THEN NoText
  ELSE IF ~(c.raw.v.encryptedPat.t = "string"
            /\ Len(Split(c.raw.v.encryptedPat.s, ":")) = 3) THEN NoText
  ELSE IF ~Truthy(c.storedKey) THEN NoText
  ELSE DecryptWith(KeyOf(c.storedKey), c.raw.v.encryptedPat.s)

\* C5: retrieveConfig never throws; it returns null when the blob is
\* absent, when it is not parseable JSON, and when the stored token does not
\* decrypt under the key in use, and it returns a config, with the decrypted
\* token, only when decryption succeeds.
C5_RetrieveNeverThrows ==
  \A p \in Procs :
    Done(p, "retrieveConfig") =>
      LET c == call[p]
          pat == DecryptedFor(c)
      IN  /\ c.result.kind = "return"
          /\ (~Truthy(c.raw) \/ ~c.raw.parses) => c.result.value = Null
          /\ (pat = NoText) => c.result.value = Null
          /\ (c.result.value # Null) => c.result.value.pat = Str(pat)

\* retrieveConfig has run over a blob that is not JSON
C5_Witness ==
  \E p \in Procs :
    /\ Done(p, "retrieveConfig")
    /\ Truthy(call[p].raw)
    /\ ~call[p].raw.parses

\* a getConfigInfo result that reports a decryptable token
ReportsToken(r) == r.value # Null /\ r.value.pat = Bool(TRUE)

\* C6: getConfigInfo never returns the plaintext token: pat is a boolean
\* and no field holds a token; and when retrieveConfig and getConfigInfo
\* have run over the same blob and the same key slot, pat is true exactly
\* when retrieveConfig returned a config.
C6_InfoMatchesRetrieve ==
  /\ \A q \in Procs :
       (Done(q, "getConfigInfo") /\ call[q].result.value # Null) =>
         LET info == call[q].result.value
         IN  /\ call[q].result.kind = "return"
             /\ info.pat.t = "boolean"
             /\ \A f \in DOMAIN info :
                  (f # "t" /\ info[f].t = "string") =>
                    \A token \in Tokens : ~Includes(info[f].s, token)
  /\ \A p, q \in Procs :
       ( /\ Done(p, "retrieveConfig")
         /\ Done(q, "getConfigInfo")
         /\ call[p].raw = call[q].raw
         /\ call[p].keyRead = call[q].keyRead )
       => (ReportsToken(call[q].result) <=> call[p].result.value # Null)

\* both readers have run over a blob whose token does not decrypt under
\* the key in the slot
C6_Witness ==
  \E p, q \in Procs :
    /\ Done(p, "retrieveConfig")
    /\ Done(q, "getConfigInfo")
    /\ call[p].raw = call[q].raw
    /\ call[p].keyRead = call[q].keyRead
    /\ HasEncryptedPat(call[q].raw)
    /\ Truthy(call[q].keyRead)
    /\ ~ReportsToken(call[q].result)

(***************************************************************************)
(* Properties of the cipher                                                *)
(***************************************************************************)

\* decryptPAT has run on what an encryptPAT call returned for a well-formed
\* token, and the key slot held the same value when encryptPAT returned and
\* when decryptPAT read it
RoundTrip(q) ==
  /\ Done(q, "decryptPAT")
  /\ call[q].note.t = "source"
  /\ WellFormedToken(call[q].note.token)
  /\ call[q].keyRead = call[q].note.slotAtEnd

\* C7 as stated: for a well-formed token t, when the persisted key is
\* unchanged between encryptPAT(t) and decryptPAT of its result,
\* decryptPAT returns exactly t.
C7_RoundTrip_Stated ==
  \A q \in Procs :
    RoundTrip(q) => call[q].result = Returned(Str(call[q].note.token))

\* C7 as amended: the same, when the persisted key is also the key that
\* encryptPAT encrypted under.
C7_RoundTrip ==
  \A q \in Procs :
    (RoundTrip(q) /\ call[q].note.usedKey = call[q].note.slotAtEnd)
      => call[q].result = Returned(Str(call[q].note.token))

C7_Witness ==
  \E q \in Procs : RoundTrip(q) /\ call[q].note.usedKey = call[q].note.slotAtEnd

\* not a string that splits on ':' into exactly three segments
NotThreeSegments(arg) == arg.t # "string" \/ Len(Split(arg.s, ":")) # 3

\* C8: decryptPAT never throws, and returns null for every argument that
\* does not split on ':' into exactly three segments.
C8_MalformedGivesNull ==
  \A q \in Procs :
    Done(q, "decryptPAT") =>
      /\ call[q].result.kind = "return"
      /\ NotThreeSegments(call[q].arg) => call[q].result.value = Null

C8_Witness ==
  \E q \in Procs :
    /\ Done(q, "decryptPAT")
    /\ call[q].arg.t = "string"
    /\ Len(Split(call[q].arg.s, ":")) > 3
    /\ call[q].result.value = Null

(***************************************************************************)
(* Properties of the remote client                                         *)
(***************************************************************************)

\* the code and the retryable flag the error table gives for a status
TableCode(status) ==
  CASE status = 401 -> "INVALID_PAT"
    [] status = 403 -> "INSUFFICIENT_PERMISSIONS"
    [] status = 404 -> "WORK_ITEM_NOT_FOUND"
    [] status = 429 -> "RATE_LIMIT_EXCEEDED"
    [] status = 500 -> "SERVER_ERROR"

TableRetryable(status) == status \in { 429, 500 }

\* C10: when the response to getPBIData has status 401, 403, 404, 429 or 500,
\* getPBIData rejects with the code and the retryable flag of the error
\* table for that status.
C10_StatusMapping ==
  \A p \in Procs :
    (Done(p, "getPBIData") /\ call[p].response # Undefined
       /\ call[p].response.status \in { 401, 403, 404, 429, 500 }) =>
      /\ call[p].result.kind = "throw"
      /\ call[p].result.error.code = TableCode(call[p].response.status)
      /\ call[p].result.error.retryable = TableRetryable(call[p].response.status)

\* C11: the error handleAPIError builds has code SERVER_ERROR and is
\* retryable for every status in 500..599, and has code API_ERROR and is not
\* retryable for every other non-2xx status outside 401, 403, 404 and 429.
C11_ServerAndOtherStatuses ==
  \A p \in Procs :
    (Done(p, "getPBIData") /\ call[p].built # Undefined) =>
      LET status == call[p].response.status
          error == call[p].built
      IN  /\ status \in 500..599 =>
               error.code = "SERVER_ERROR" /\ error.retryable
          /\ (status \notin 500..599 /\ status \notin { 401, 403, 404, 429 }) =>
               error.code = "API_ERROR" /\ ~error.retryable

\* the call has rejected with a retryable NETWORK_ERROR
NetworkError(c) ==
  /\ c.result.kind = "throw"
  /\ c.result.error.hasCode
  /\ c.result.error.code = "NETWORK_ERROR"
  /\ c.result.error.retryable

\* the call has settled without an answer, its timer having run out
TimedOut(c) ==
  /\ c.op = "getPBIData" /\ c.pc = "done"
  /\ c.response = Undefined
  /\ c.result.kind = "throw"
  /\ c.result.error.message = "Request timed out after 10 seconds"

\* C12: no getPBIData request waits for an answer beyond 10 seconds; a
\* request still unanswered at 10 seconds that settles without an answer
\* rejects with a retryable NETWORK_ERROR, and that step leaves every other
\* call as it was.
C12_Timeout ==
  /\ [](\A p \in Procs : Waiting(p) => call[p].elapsed <= TimeoutSeconds)
  /\ [][\A p \in Procs :
          ( /\ Waiting(p)
            /\ call[p].elapsed = TimeoutSeconds
            /\ call'[p].pc = "done" )
          => /\ NetworkError(call'[p])
             /\ \A q \in Procs \ {p} : call'[q] = call[q] ]_vars

\* one request has timed out while another one was in flight
C12_Witness ==
  \E p, q \in Procs :
    /\ p # q
    /\ TimedOut(call[p])
    /\ call[q].op = "getPBIData"
    /\ call[q].pc \in { "fetching", "body" }

\* C13: validatePAT never throws; it resolves to true when the request
\* completed with a 2xx status, and to false for every other status and for
\* a transport failure.
C13_ValidatePAT ==
  \A p \in Procs :
    Done(p, "validatePAT") =>
      /\ call[p].result.kind = "return"
      /\ call[p].result.value =
           Bool(call[p].response # Undefined /\ call[p].response.status \in 200..299)

\* validatePAT has answered false to a status that is neither 2xx nor 401
C13_Witness ==
  \E p \in Procs :
    /\ Done(p, "validatePAT")
    /\ call[p].response # Undefined
    /\ call[p].response.status \notin (200..299) \cup { 401 }
    /\ call[p].result = Returned(Bool(FALSE))

\* the bytes of ':' followed by the token
Credentials(token) == << 58 >> \o Utf8Bytes(token)

\* C14: for every token that passes validatePATFormat, the Authorization
\* header sent by getPBIData is 'Basic ' followed by the Base64 encoding of
\* ':' and the token, and decoding it yields ':' and the token.
C14_AuthHeader ==
  \A p \in Procs :
    (call[p].op = "getPBIData" /\ validatePATFormat(call[p].arg.s)) =>
      LET header == call[p].raw.s
      IN  /\ header = << "B", "a", "s", "i", "c", " " >>
                        \o Encode64(Credentials(call[p].arg.s))
          /\ Decode64(SubSeq(header, 7, Len(header))) = Credentials(call[p].arg.s)

\* what validatePBI gave for the n-th identifier, once that call has settled
ResultAt(n) ==
  IF n <= Len(batch.results) THEN batch.results[n]
  ELSE IF /\ batch.pc = "group"
          /\ n - batch.i \in 1..Len(batch.slots)
          /\ batch.slots[n - batch.i].pc = "done"
       THEN batch.slots[n - batch.i].result
       ELSE Undefined

Settled(n) == ResultAt(n) # Undefined

\* C15: a validatePBI call sends its request only after the structural check
\* of its identifier has passed; for an identifier that fails the check no
\* request is ever sent and the call gives isValid = false with the code
\* INVALID_PBI_INFO.
C15_CheckBeforeRequest ==
  \A n \in 1..Len(batch.inputs) :
    /\ n \in batch.sent => validatePBIInfoStructure(batch.inputs[n])
    /\ ~validatePBIInfoStructure(batch.inputs[n]) =>
         /\ n \notin batch.sent
         /\ Settled(n) =>
              /\ ResultAt(n).isValid = FALSE
              /\ ResultAt(n).error.code = "INVALID_PBI_INFO"

C15_Witness ==
  /\ batch.pc = "done"
  /\ \E n, m \in 1..Len(batch.inputs) :
       /\ ~validatePBIInfoStructure(batch.inputs[n])
       /\ batch.results[n] = InvalidInfo
       /\ n \notin batch.sent
       /\ m \in batch.sent
       /\ batch.results[m].isValid

\* getPBIData rejected for the n-th identifier, and with a DomainError
RejectedWithDomainError(n) ==
  /\ batch.rejected[n] # Undefined
  /\ validateAPIError(batch.rejected[n])

\* C16: when getPBIData rejects with a DomainError (string code, message and
\* userMessage, boolean retryable), validatePBI gives isValid = false with
\* that same object as its error, every field unchanged.
C16_DomainErrorPassedThrough ==
  \A n \in 1..Len(batch.inputs) :
    (RejectedWithDomainError(n) /\ Settled(n)) =>
       /\ ResultAt(n).isValid = FALSE
       /\ ResultAt(n).error = batch.rejected[n]

C16_Witness ==
  /\ batch.pc = "done"
  /\ \E n \in 1..Len(batch.inputs) :
       /\ RejectedWithDomainError(n)
       /\ batch.rejected[n].code = "NETWORK_ERROR"
       /\ batch.rejected[n].retryable
       /\ batch.results[n] = Invalid(batch.rejected[n])

\* C17: validateMultiplePBIs returns an array as long as its input whose i-th
\* entry is what validatePBI gave for the i-th identifier, in whatever order
\* the calls of a group settled.
C17_ResultsInInputOrder ==
  /\ \A n \in 1..Len(batch.results) : batch.results[n] = batch.outcome[n]
  /\ batch.pc = "done" => Len(batch.results) = Len(batch.inputs)

C17_Witness ==
  /\ batch.pc = "done"
  /\ batch.overtook
  /\ Len(batch.results) = MaxBatch
  /\ \E n, m \in 1..BatchSize : batch.results[n] # batch.results[m]

\* C18: during a validateMultiplePBIs call at most 3 requests sent by the call
\* are outstanding (sent and not yet answered) at any instant, whatever the
\* remote side answers and whenever it does.
C18_AtMostThreeOutstanding == Cardinality(batch.net) <= BatchSize

\* the requests of the calls still waiting in the group in hand
AwaitedRequests == { n \in batch.net : Fetching(n - batch.i) }

\* what the grouping does bound: the requests whose calls are still awaited
AwaitedAtMostThree == Cardinality(AwaitedRequests) <= BatchSize

\* the URLs of the accepted shapes for the work item the state is about
ShapeUrls ==
  { ShapeUrl(shape, parser.organization, parser.project, parser.workItemId) :
      shape \in Shapes }

SameWorkItem(a, b) ==
  /\ a.organization = b.organization
  /\ a.project = b.project
  /\ a.workItemId = b.workItemId

\* C19: for one organization, project and id, the URLs of the five accepted
\* shapes all parse as valid, with the same organization, the same project
\* and the same workItemId.
C19_ParserEquivalence ==
  \A e, f \in parser.parsed :
    (e.url \in ShapeUrls /\ f.url \in ShapeUrls) =>
       /\ e.outcome.value.isValid
       /\ f.outcome.value.isValid
       /\ SameWorkItem(e.outcome.value.data, f.outcome.value.data)

\* C20: parseURL never throws; an input whose host holds neither
\* dev.azure.com nor visualstudio.com, or that holds no work-item id, gives
\* isValid = false with a non-empty error and no data; data is present
\* exactly when isValid is true.
C20_ParserRejection ==
  \A e \in parser.parsed :
    /\ e.outcome.kind = "return"
    /\ e.url \in ForeignUrls \cup NoIdUrls => ~e.outcome.value.isValid
    /\ e.outcome.value.isValid <=> "data" \in DOMAIN e.outcome.value
    /\ ~e.outcome.value.isValid =>
         /\ "error" \in DOMAIN e.outcome.value
         /\ e.outcome.value.error # ""

C20_Witness ==
  /\ \A host \in ForeignHosts :
       ~isAzureDevOpsURL(ToLowerCase(host))
  /\ \E e, f \in parser.parsed :
       /\ e.url \in ForeignUrls
       /\ e.outcome.value =
            Rejected("URL must be from dev.azure.com or visualstudio.com")
       /\ f.url \in NoIdUrls
       /\ f.outcome.value = Rejected("Could not find work item ID in URL")

\* C21: every data record parseURL returns with isValid = true has a
\* non-empty organization and project that match the name pattern and a
\* positive workItemId: it passes validatePBIInfoStructure.
C21_IdentifierInvariant ==
  \A e \in parser.parsed :
    e.outcome.value.isValid =>
      validatePBIInfoStructure(e.outcome.value.data)

\* what follows the scheme of a URL that has one
AfterScheme(url) == ProtocolMatch(Trim(url)).value

PathAndQueryOf(url) ==
  SubSeq(AfterScheme(url), Len(HostnameOf(AfterScheme(url))) + 1,
         Len(AfterScheme(url)))

PathnameOf(url) ==
  IF IndexOf(PathAndQueryOf(url), << "?" >>) = 0 THEN PathAndQueryOf(url)
  ELSE SubSeq(PathAndQueryOf(url), 1, IndexOf(PathAndQueryOf(url), << "?" >>) - 1)

SearchParamsOf(url) ==
  IF IndexOf(PathAndQueryOf(url), << "?" >>) = 0 THEN << >>
  ELSE parseQueryParams(SubSeq(PathAndQueryOf(url),
                               IndexOf(PathAndQueryOf(url), << "?" >>),
                               Len(PathAndQueryOf(url)))).value

\* the four candidates for the id of a URL, in the order they are tried; NaN
\* where the URL has none
Candidates(url) ==
  << IF DigitsAfter(PathnameOf(url), EditPath) = << >> THEN NaN
     ELSE Num(DigitsValue(DigitsAfter(PathnameOf(url), EditPath))),
     QueryId(SearchParamsOf(url), WorkitemKey),
     QueryId(SearchParamsOf(url), WorkItemKey),
     IF DigitsAfter(PathnameOf(url), WorkitemsPath) = << >> THEN NaN
     ELSE Num(DigitsValue(DigitsAfter(PathnameOf(url), WorkitemsPath))) >>

Positive(candidate) == candidate # NaN /\ candidate.n > 0

\* service URLs with an organization and a project, with none, one or
\* several candidates for the id
IdUrls == CandidateUrls \cup { UrlBoards, UrlZeroId, UrlQueryNotANumber }

\* C26: the id is the first of the four candidates (/edit/ digits, workitem,
\* workItem, /workitems/ digits) that is a positive integer; a candidate that
\* is 0 or negative is passed over and the next one is tried; with no
\* positive candidate the URL is rejected.
C26_FirstPositiveCandidate ==
  \A e \in parser.parsed :
    e.url \in IdUrls =>
      LET cands == Candidates(e.url)
          good  == { k \in 1..4 : Positive(cands[k]) }
      IN  IF good = {} THEN ~e.outcome.value.isValid
          ELSE /\ e.outcome.value.isValid
               /\ e.outcome.value.data.workItemId =
                    cands[CHOOSE k \in good : \A j \in good : k <= j].n

\* C22: when clearConfig completes, neither the config blob nor the cipher
\* key is left in storage: both slots are empty.
C22_ClearRemovesKey ==
  [][ \A p \in Procs :
        ( /\ call'[p] # call[p]
          /\ call'[p].op = "clearConfig"
          /\ call'[p].pc = "done" )
        => ( configSlot' = Undefined /\ keySlot' = Undefined ) ]_vars

\* C23: starting from the default width 340, after any sequence of
\* handleResize(+40) and handleResize(-40) the widget's customWidth is between
\* 280 and 800 inclusive.
C23_WidthInRange ==
  /\ widget.state.customWidth >= MinWidth
  /\ widget.state.customWidth <= MaxWidth

C23_Witness ==
  /\ widget.state.customWidth = MaxWidth
  /\ \E h \in WidgetProcs : widget.run[h].op = "handleRefresh"

\* C28: when a handleRefresh that was started on a state with a non-null
\* error gets a successful validation, the state it leaves has error = null,
\* isLoading = false and currentData equal to the record just fetched.
C28_RefreshClearsError ==
  [][ \A h \in WidgetProcs : \A validation \in ValidationOutcomes :
        ( /\ validation.isValid
          /\ widget.run[h].seen.error # Null
          /\ HandleRefresh_Validated(h, validation) )
        => ( /\ widget'.state.error = Null
             /\ widget'.state.isLoading = FALSE
             /\ widget'.state.currentData = validation.data ) ]_vars

\* C29: whenever handleUpdatePBI or handleRefresh has raised isLoading, the
\* flag is lowered again once the operation finishes, whether the validation
\* succeeds, returns an error or throws.
C29_LoadingEnds == widget.state.isLoading ~> ~widget.state.isLoading

\* the blob holds a remembered base URL
HasLastBaseUrl(raw) ==
  /\ raw.t = "text"
  /\ raw.parses
  /\ raw.v.t = "object"
  /\ raw.v.lastBaseUrl.t = "string"

\* C24: the base URL is remembered: a storeConfig call that completes
\* successfully while no other call is in progress, on a blob that holds a
\* lastBaseUrl written by storeLastBaseUrl, leaves a blob with the same
\* lastBaseUrl.
C24_BaseUrlRemembered ==
  [][ \A p \in Procs :
        ( /\ HasLastBaseUrl(configSlot)
          /\ \A q \in Procs \ {p} : call[q].pc = "done"
          /\ call[p].op = "storeConfig" /\ call[p].pc # "done"
          /\ call'[p].pc = "done" /\ call'[p].result.kind = "return" )
        => ( /\ HasLastBaseUrl(configSlot')
             /\ configSlot'.v.lastBaseUrl = configSlot.v.lastBaseUrl ) ]_vars

\* the codes that the calls of createAPIError give to an error
ErrorCodes ==
  { "INVALID_PAT", "INSUFFICIENT_PERMISSIONS", "WORK_ITEM_NOT_FOUND",
    "RATE_LIMIT_EXCEEDED", "SERVER_ERROR", "API_ERROR", "NETWORK_ERROR",
    "INVALID_PBI_INFO", "INVALID_PBI_DATA", "VALIDATION_ERROR" }

\* a resolved PBIValidationResult of the shape the callers rely on
TypedResult(r) ==
  /\ "isValid" \in DOMAIN r
  /\ IF r.isValid
     THEN /\ "data" \in DOMAIN r
          /\ r.data.t = "pbi"
          /\ "error" \notin DOMAIN r
     ELSE /\ "error" \in DOMAIN r
          /\ "data" \notin DOMAIN r
          /\ r.error.hasCode
          /\ r.error.code \in ErrorCodes

\* what a getPBIData call can settle with, and what a replacement of it
\* could: a record, complete or not, a DomainError of any code, an Error
\* and a thrown value that is no Error
RemoteOutcomes ==
  { Returned([ t |-> "pbi", from |-> body ]) : body \in { "workItem", "message" } }
    \cup { Thrown(createAPIError(code, "given", retryable)) :
             code \in ErrorCodes, retryable \in BOOLEAN }
    \cup { Thrown(Error("boom")),
           Thrown([ isError |-> FALSE, hasCode |-> FALSE ]) }

\* C25: validatePBI never rejects: every call of a batch that has settled,
\* and every outcome of the remote call applied to validatePBI, gives a
\* result with isValid = true, data and no error, or with isValid = false,
\* an error whose code is one of the taxonomy and no data.
C25_AlwaysTypedResult ==
  /\ \A n \in 1..Len(batch.inputs) :
       batch.outcome[n] # Undefined => TypedResult(batch.outcome[n])
  /\ \A n \in 1..Len(batch.results) : TypedResult(batch.results[n])
  /\ \A outcome \in RemoteOutcomes : TypedResult(validatePBI_Settled(outcome))

\* a batch has returned a valid result, one refused without a request, one
\* whose request failed and one whose record was incomplete
C25_Witness ==
  /\ batch.pc = "done"
  /\ \E a, b, c, d \in 1..Len(batch.results) :
       /\ batch.results[a].isValid
       /\ batch.results[b] = InvalidInfo
       /\ ~batch.results[c].isValid /\ batch.results[c].error.code = "NETWORK_ERROR"
       /\ ~batch.results[d].isValid /\ batch.results[d].error.code = "INVALID_PBI_DATA"

\* process p resumes getOrGenerateKey with what it read from the key slot
ResumesKeyRead(p) == call[p].pc = "key_read" /\ call'[p] # call[p]

\* C27 as stated: across any interleaving of encryptPAT and decryptPAT
\* calls, overlapping first uses included, the key slot is written at most
\* once: a key that is in the slot is never replaced.
C27_GenerateOnce_Stated ==
  [][ keySlot # Undefined => keySlot' = keySlot ]_vars

\* C27 as amended: the key slot is written only by a getOrGenerateKey call
\* that read it as absent, which persists and returns the key it generated;
\* a call that read a key returns that key and leaves the slot as it is.
C27_GenerateOnce ==
  [][ /\ \A p \in Procs :
           ResumesKeyRead(p) =>
             IF Truthy(call[p].keyRead)
             THEN /\ keySlot' = keySlot
                  /\ call'[p].storedKey = call[p].keyRead
             ELSE /\ call'[p].pc = "key_set"
                  /\ Truthy(call'[p].storedKey)
                  /\ keySlot' = call'[p].storedKey
      /\ keySlot' # keySlot =>
           \E p \in Procs : ResumesKeyRead(p) /\ ~Truthy(call[p].keyRead) ]_vars

\* a first use generated the key that is in the slot, and a later call read
\* that key and completed with it
C27_Witness ==
  \E p, q \in Procs :
    /\ Done(p, "encryptPAT") /\ call[p].result.kind = "return"
    /\ call[p].keyRead = Undefined
    /\ call[p].storedKey = keySlot
    /\ call[q].op \in { "encryptPAT", "decryptPAT" } /\ call[q].pc = "done"
    /\ call[q].result.kind = "return"
    /\ call[q].keyRead = keySlot
    /\ call[q].storedKey = keySlot

\* C30: no lost update on the config blob: when storeConfig with a new token
\* has completed and an overlapping storeLastBaseUrl call then completes,
\* the blob still holds the encrypted token storeConfig wrote, so that
\* retrieveConfig returns the new token.
C30_NoLostUpdate ==
  [][ \A p, q \in Procs :
        ( /\ p # q
          /\ Done(p, "storeConfig") /\ call[p].result.kind = "return"
          /\ Len(call[p].config.pat) > 0
          /\ HasEncryptedPat(configSlot)
          /\ call[q].op = "storeLastBaseUrl" /\ call[q].pc = "write_url"
          /\ call'[q].pc = "done" )
        => ( /\ HasEncryptedPat(configSlot')
             /\ configSlot'.v.encryptedPat = configSlot.v.encryptedPat ) ]_vars

====
